---- MODULE Spec2Model ----
(***************************************************************************)
(* Candle aggregation pipeline of the prediction-market trade indexer.     *)
(*                                                                         *)
(* The model covers the server start-up sequence (index.ts), the live      *)
(* CandleAggregator (start / stop / processTrade / updateCandle), the      *)
(* set-oriented backfill (backfillCandles / backfillInterval) and the two  *)
(* relations of the store (trades, candles).  Prices and quantities are    *)
(* fixed-point integers; instants are milliseconds since the epoch.        *)
(***************************************************************************)
EXTENDS Integers, Sequences, FiniteSets, TLC

(***************************************************************************)
(* Bounds of the model: rows of the trades table, and upsert statements    *)
(* in flight at the store at one time.                                     *)
(***************************************************************************)
MaxTrades == 2
MaxInflight == 4

(***************************************************************************)
(* Units of time, in milliseconds.                                         *)
(***************************************************************************)
MsPerSecond == 1000
MsPerMinute == 60 * MsPerSecond
MsPerHour == 60 * MsPerMinute

INTERVALS == <<"1s", "1m", "1h">>

Intervals == {INTERVALS[i] : i \in 1..Len(INTERVALS)}

\* (exchange, marketId) pairs the ingesters produce trades for.
Markets == {<<"kalshi", "M">>}

\* Trade instants: 12:34:56.789 and 12:35:10.000 on the first day of the
\* epoch (different second and minute, same hour).
Timestamps == {45296789, 45310000}

\* Offsets (minutes east of UTC) of the zone the Node process may run in:
\* UTC and a zone that is not a whole number of hours.
TzOffsets == {0, 330}

\* Offset of the zone of the store session.
StoreTzOffsets == {0}

Prices == {1, 2}

Quantities == {1}

Max(a, b) == IF a >= b THEN a ELSE b

Min(a, b) == IF a <= b THEN a ELSE b

(***************************************************************************)
(* Date.setMilliseconds(0) / setSeconds(0,0) / setMinutes(0,0,0) act on    *)
(* the local-time fields of the Date: the instant is shifted to local      *)
(* time, the lower fields are zeroed, and the result is shifted back.      *)
(***************************************************************************)
TruncLocal(ts, unit, off) ==
  LET local == ts + off * MsPerMinute
  IN  (local \div unit) * unit - off * MsPerMinute

IntervalMs(interval) ==
  CASE interval = "1s" -> MsPerSecond
    [] interval = "1m" -> MsPerMinute
    [] interval = "1h" -> MsPerHour

\* CandleAggregator.getOpenTime, evaluated in a process whose zone is off.
getOpenTime(timestamp, interval, off) ==
  TruncLocal(timestamp, IntervalMs(interval), off)

\* DATE_TRUNC(field, timestamp) on a TIMESTAMPTZ column truncates in the
\* time zone of the store session.
getTruncateExpression(timestamp, interval, off) ==
  TruncLocal(timestamp, IntervalMs(interval), off)

\* The bucket's left edge as the data model defines it: the UTC instant
\* truncated by the interval.
UtcOpenTime(timestamp, interval) ==
  (timestamp \div IntervalMs(interval)) * IntervalMs(interval)

VARIABLES
  tz,          \* zone offset of the Node process (environment)
  dbTz,        \* zone offset of the store session (environment)
  trades,      \* relation trades, in insertion order
  candles,     \* relation candles: key -> row, defined on the existing keys
  pc,          \* position of the process in the server.listen callback
  isRunning,   \* CandleAggregator.isRunning
  listeners,   \* number of 'trade' listeners registered on tradeEmitter
  indexersRunning, \* kalshiIndexer / polymarketIndexer have been started
  inflight,    \* live upsert statements issued and not yet answered
  restarted,   \* the process has been restarted at least once
  lostWrites,  \* some statement of the aggregator was rejected by the store,
               \* or was still in flight when its process exited
  surfaced,    \* a store error of a candle write has reached the caller of
               \* the write: processTrade or backfillCandles has rejected
  counted,     \* number of store errors or dropped trades the aggregator
               \* has counted
  response,    \* answer of the last read served (route or getCandles)
  hubListeners, \* 'trade' listeners of the other subscribers of the bus
  recentTrades, \* PerformanceTracker.recentTrades
  exchangeStats, \* PerformanceTracker.exchangeStats
  recorded,    \* history of the recordTrade calls made in this process
  metadata,    \* the market metadata service: metadataCache, the clock,
               \* the fetchKalshiMarket requests in flight, the last step
  hook,        \* a useWebSocket instance in the browser: props, refs,
               \* state, and the WebSockets it has created
  chart        \* the Chart component in the browser: its zone offset,
               \* interval, candlesRef and the live trades it has handled

\* The listeners the WebSocket hub holds on the 'trade' event once
\* tradeWebSocketServer.initialize(server) has run.
HubListeners == 1

\* No read has been served yet.
NoResponse == [op |-> "none"]

\* Tickers of Kalshi markets whose titles are looked up.
Tickers == {"M", "N"}

\* Date.now() when the process starts: 13:47:30.000.
StartInstant == 49650000

\* The metadata service of a process that has just started: an empty
\* metadataCache, no request in flight.
InitialMetadata ==
  [metadataCache |-> [t \in Tickers |-> <<>>],
   now |-> StartInstant,
   pending |-> [t \in Tickers |-> 0],
   last |-> [op |-> "none"]]

\* The state of the browser.
browser == <<hook, chart>>

\* The (exchange, marketId) props of a component; marketId '' when no
\* market is selected.
Selections ==
  {[exchange |-> "kalshi", marketId |-> "M"],
   [exchange |-> "polymarket", marketId |-> "N"],
   [exchange |-> "kalshi", marketId |-> ""]}

\* A useWebSocket instance that is not mounted.
InitialHook ==
  [mounted |-> FALSE, memoized |-> TRUE,
   props |-> [exchange |-> "kalshi", marketId |-> ""],
   currentSubscription |-> [exchange |-> "kalshi", marketId |-> ""],
   hasCleanup |-> FALSE, wsRef |-> 0, sockets |-> <<>>,
   isConnected |-> FALSE, error |-> "null"]

\* A Chart that is not mounted: the zone offset of the browser and the
\* interval prop, candlesRef, the candles of the store for the chart's
\* market and interval with the open times of those that were loaded, and
\* the number of live trades handled.
InitialChart ==
  [status |-> "closed", offset |-> 0, interval |-> "1s",
   candlesRef |-> <<>>, server |-> <<>>, loaded |-> {}, handled |-> 0]

\* The state of the performance tracker.
tracker == <<recentTrades, exchangeStats, recorded>>

Exchanges == {"kalshi", "polymarket"}

\* exchangeStats and recentTrades as the class initialises them.
InitialExchangeStats ==
  [e \in Exchanges |->
     [totalTrades |-> 0, latencies |-> <<>>,
      lastTradeTimestamp |-> <<>>, lastIndexedTimestamp |-> <<>>]]

vars == <<tz, dbTz, trades, candles, pc, isRunning, listeners, indexersRunning,
          inflight, restarted, lostWrites, surfaced, counted, response,
          hubListeners, recentTrades, exchangeStats, recorded, metadata,
          hook, chart>>

CandleKey(market, interval, openTime) == <<market, interval, openTime>>

\* A row of candles as the live upsert's VALUES clause proposes it.
NewRow(price, volume) ==
  [open |-> price, high |-> price, low |-> price, close |-> price, volume |-> volume]

\* Variant of UpsertConflict: low = EXCLUDED.low instead of LEAST(...).
UpsertConflictLowOverwritten(row, price, volume) ==
  [open   |-> row.open,
   high   |-> Max(row.high, price),
   low    |-> price,
   close  |-> price,
   volume |-> row.volume + volume]

\* Variant of UpsertConflict: open = EXCLUDED.open is added to the SET list.
UpsertConflictOpenOverwritten(row, price, volume) ==
  [open   |-> price,
   high   |-> Max(row.high, price),
   low    |-> Min(row.low, price),
   close  |-> price,
   volume |-> row.volume + volume]

\* Variant of UpsertConflict: high = EXCLUDED.high instead of GREATEST(...).
UpsertConflictHighOverwritten(row, price, volume) ==
  [open   |-> row.open,
   high   |-> price,
   low    |-> Min(row.low, price),
   close  |-> price,
   volume |-> row.volume + volume]

\* ON CONFLICT ... DO UPDATE of updateCandle.
UpsertConflict(row, price, volume) ==
  [open   |-> row.open,
   high   |-> Max(row.high, price),
   low    |-> Min(row.low, price),
   close  |-> price,
   volume |-> row.volume + volume]

\* The whole INSERT ... ON CONFLICT statement of updateCandle on table c.
UpsertCandle(c, key, price, volume) ==
  IF key \in DOMAIN c
    THEN [c EXCEPT ![key] = UpsertConflict(c[key], price, volume)]
    ELSE [k \in DOMAIN c \cup {key} |->
            IF k = key THEN NewRow(price, volume) ELSE c[k]]

\* The statement updateCandle issues for a trade and an interval.
UpdateCandleStmt(trade, interval, off) ==
  [id       |-> trade.id,
   interval |-> interval,
   key      |-> CandleKey(trade.market, interval, getOpenTime(trade.timestamp, interval, off)),
   price    |-> trade.price,
   volume   |-> trade.quantity]

\* processTrade: Promise.all over INTERVALS issues the three statements.
ProcessTradeStmts(trade, off) ==
  {UpdateCandleStmt(trade, interval, off) : interval \in Intervals}

(***************************************************************************)
(* backfillInterval: one INSERT ... SELECT ... GROUP BY ... ON CONFLICT.   *)
(***************************************************************************)
TradeIdx == 1..Len(trades)

GroupKeys(interval) ==
  {CandleKey(trades[i].market, interval,
             getTruncateExpression(trades[i].timestamp, interval, dbTz)) : i \in TradeIdx}

GroupOf(key) ==
  {i \in TradeIdx :
     CandleKey(trades[i].market, key[2],
               getTruncateExpression(trades[i].timestamp, key[2], dbTz)) = key}

RECURSIVE SumQty(_)
SumQty(idx) ==
  IF idx = {} THEN 0
  ELSE LET i == CHOOSE j \in idx : TRUE
       IN  trades[i].quantity + SumQty(idx \ {i})

MaxPriceOf(idx) == CHOOSE p \in Prices :
  /\ \E i \in idx : trades[i].price = p
  /\ \A i \in idx : trades[i].price <= p

MinPriceOf(idx) == CHOOSE p \in Prices :
  /\ \E i \in idx : trades[i].price = p
  /\ \A i \in idx : trades[i].price >= p

\* (ARRAY_AGG(price ORDER BY timestamp ASC))[1]: the order among equal
\* timestamps is unspecified, any trade with the least timestamp may be first.
FirstPrices(idx) ==
  {trades[i].price : i \in {j \in idx : \A l \in idx : trades[j].timestamp <= trades[l].timestamp}}

\* (ARRAY_AGG(price ORDER BY timestamp DESC))[1]
LastPrices(idx) ==
  {trades[i].price : i \in {j \in idx : \A l \in idx : trades[j].timestamp >= trades[l].timestamp}}

\* The row the SELECT emits for a group, for one choice of first and last.
GroupRow(idx, first, last) ==
  [open |-> first, high |-> MaxPriceOf(idx), low |-> MinPriceOf(idx),
   close |-> last, volume |-> SumQty(idx)]

\* ON CONFLICT ... DO UPDATE of backfillInterval.
BackfillConflict(row, excluded) ==
  [open   |-> row.open,
   high   |-> Max(row.high, excluded.high),
   low    |-> Min(row.low, excluded.low),
   close  |-> excluded.close,
   volume |-> excluded.volume]

\* The candles table after the statement, for a choice of first/last prices.
BackfillTable(c, interval, first, last) ==
  [k \in DOMAIN c \cup GroupKeys(interval) |->
     IF k \in GroupKeys(interval)
       THEN IF k \in DOMAIN c
              THEN BackfillConflict(c[k], GroupRow(GroupOf(k), first[k], last[k]))
              ELSE GroupRow(GroupOf(k), first[k], last[k])
       ELSE c[k]]

\* Every table the statement can leave behind: one per admissible choice
\* of the first and the last price of each group.
BackfillResults(c, interval) ==
  {BackfillTable(c, interval, first, last) :
     first \in {f \in [GroupKeys(interval) -> Prices] :
                  \A k \in GroupKeys(interval) : f[k] \in FirstPrices(GroupOf(k))},
     last \in {l \in [GroupKeys(interval) -> Prices] :
                 \A k \in GroupKeys(interval) : l[k] \in LastPrices(GroupOf(k))}}

NextInterval(p) ==
  CASE p = "backfill_1s" -> "backfill_1m"
    [] p = "backfill_1m" -> "backfill_1h"
    [] p = "backfill_1h" -> "backfilled"

IntervalAt(p) ==
  CASE p = "backfill_1s" -> "1s"
    [] p = "backfill_1m" -> "1m"
    [] p = "backfill_1h" -> "1h"

BackfillPcs == {"backfill_1s", "backfill_1m", "backfill_1h"}

(***************************************************************************)
(* Initial state: a fresh deployment, both relations empty, the process    *)
(* about to run the server.listen callback.                                *)
(***************************************************************************)
Init ==
  /\ tz \in TzOffsets
  /\ dbTz \in StoreTzOffsets
  /\ trades = <<>>
  /\ candles = <<>>
  /\ pc = "listening"
  /\ isRunning = FALSE
  /\ listeners = 0
  /\ indexersRunning = FALSE
  /\ inflight = {}
  /\ restarted = FALSE
  /\ lostWrites = FALSE
  /\ surfaced = FALSE
  /\ counted = 0
  /\ response = NoResponse
  /\ hubListeners = HubListeners
  /\ recentTrades = <<>>
  /\ exchangeStats = InitialExchangeStats
  /\ recorded = <<>>
  /\ metadata = InitialMetadata
  /\ hook = InitialHook
  /\ chart = InitialChart

\* candleAggregator.start() as called first in the listen callback.
AggregatorStart ==
  /\ pc = "listening"
  /\ IF isRunning
       THEN UNCHANGED <<isRunning, listeners>>
       ELSE /\ isRunning' = TRUE
            /\ listeners' = listeners + 1
  /\ pc' = "backfill_1s"
  /\ UNCHANGED <<indexersRunning, tz, dbTz, trades, candles, inflight,
                 restarted, lostWrites>>
  /\ UNCHANGED <<surfaced, counted, response, hubListeners, tracker, metadata, browser>>

\* backfillInterval(interval): the statement commits.
BackfillInterval ==
  /\ pc \in BackfillPcs
  /\ candles' \in BackfillResults(candles, IntervalAt(pc))
  /\ pc' = NextInterval(pc)
  /\ UNCHANGED <<indexersRunning, tz, dbTz, trades, isRunning, listeners,
                 inflight, restarted, lostWrites>>
  /\ UNCHANGED <<surfaced, counted, response, hubListeners, tracker, metadata, browser>>

\* backfillInterval(interval): db.query rejects; the catch block logs and
\* the loop of backfillCandles goes on with the next interval.
BackfillIntervalFails ==
  /\ pc \in BackfillPcs
  /\ lostWrites' = TRUE
  /\ pc' = NextInterval(pc)
  /\ UNCHANGED <<indexersRunning, tz, dbTz, trades, candles, isRunning,
                 listeners, inflight, restarted>>
  /\ UNCHANGED <<surfaced, counted, response, hubListeners, tracker, metadata, browser>>

\* Variant of StartIndexers: backfillCandles() is not awaited, the indexers
\* are started while the backfill statements are still running.
StartIndexersNotAwaited ==
  /\ pc \in BackfillPcs \cup {"backfilled"}
  /\ ~indexersRunning
  /\ indexersRunning' = TRUE
  /\ pc' = IF pc = "backfilled" THEN "live" ELSE pc
  /\ UNCHANGED <<tz, dbTz, trades, candles, isRunning, listeners, inflight,
                 restarted, lostWrites>>
  /\ UNCHANGED <<surfaced, counted, response, hubListeners, tracker, metadata, browser>>

\* kalshiIndexer.start(); polymarketIndexer.start() after the await.
StartIndexers ==
  /\ pc = "backfilled"
  /\ pc' = "live"
  /\ indexersRunning' = TRUE
  /\ UNCHANGED <<tz, dbTz, trades, candles, isRunning, listeners, inflight,
                 restarted, lostWrites>>
  /\ UNCHANGED <<surfaced, counted, response, hubListeners, tracker, metadata, browser>>

\* A started ingester persists a trade and publishes it on the bus, per
\* market in timestamp order; every registered listener runs processTrade,
\* which issues the three upserts before the emit returns.  The number of
\* statements in flight is capped at MaxInflight.
IngestTrade ==
  /\ indexersRunning
  /\ Len(trades) < MaxTrades
  /\ Cardinality(inflight) + Len(INTERVALS) <= MaxInflight
  /\ \E m \in Markets, ts \in Timestamps, p \in Prices, q \in Quantities :
       /\ \A i \in TradeIdx : trades[i].market = m => trades[i].timestamp <= ts
       /\ LET trade == [id |-> Len(trades) + 1, market |-> m,
                        timestamp |-> ts, price |-> p, quantity |-> q]
          IN  /\ trades' = Append(trades, trade)
              /\ inflight' = IF listeners > 0
                               THEN inflight \cup ProcessTradeStmts(trade, tz)
                               ELSE inflight
  /\ UNCHANGED <<indexersRunning, tz, dbTz, candles, pc, isRunning,
                 listeners, restarted, lostWrites>>
  /\ UNCHANGED <<surfaced, counted, response, hubListeners, tracker, metadata, browser>>

\* The store executes one in-flight upsert; statements sent through the
\* pool are answered in any order.
UpdateCandleCommit(s) ==
  /\ inflight' = inflight \ {s}
  /\ candles' = UpsertCandle(candles, s.key, s.price, s.volume)
  /\ UNCHANGED <<indexersRunning, tz, dbTz, trades, pc, isRunning,
                 listeners, restarted, lostWrites>>
  /\ UNCHANGED <<surfaced, counted, response, hubListeners, tracker, metadata, browser>>

UpdateCandleCommits ==
  \E s \in inflight : UpdateCandleCommit(s)

\* db.query of updateCandle rejects; the catch block logs the error and
\* updateCandle resolves.
\* Nothing is rethrown and nothing is counted: Promise.all of processTrade
\* resolves and the .catch of the listener does not run.
UpdateCandleFail(s) ==
  /\ lostWrites' = TRUE
  /\ inflight' = inflight \ {s}
  /\ UNCHANGED <<indexersRunning, tz, dbTz, trades, candles, pc, isRunning,
                 listeners, restarted>>
  /\ UNCHANGED <<surfaced, counted, response, hubListeners, tracker, metadata, browser>>

UpdateCandleFails ==
  \E s \in inflight : UpdateCandleFail(s)

\* SIGTERM: indexers stop, candleAggregator.stop(), server.close(),
\* process.exit(0).  Statements still in flight are abandoned; stop()
\* calls tradeEmitter.removeAllListeners('trade').
Sigterm ==
  /\ pc # "exited"
  /\ pc' = "exited"
  /\ isRunning' = FALSE
  /\ listeners' = 0
  /\ indexersRunning' = FALSE
  /\ lostWrites' = (lostWrites \/ inflight # {})
  /\ inflight' = {}
  /\ hubListeners' = 0
  /\ UNCHANGED <<tz, dbTz, trades, candles, restarted>>
  /\ UNCHANGED <<surfaced, counted, response, tracker, metadata, browser>>

\* The process is started again on the same store.
Restart ==
  /\ pc = "exited"
  /\ restarted' = TRUE
  /\ pc' = "listening"
  /\ surfaced' = FALSE
  /\ counted' = 0
  /\ UNCHANGED <<indexersRunning, tz, dbTz, trades, candles, isRunning,
                 listeners, inflight, lostWrites, response>>
  /\ hubListeners' = HubListeners
  /\ recentTrades' = <<>>
  /\ exchangeStats' = InitialExchangeStats
  /\ recorded' = <<>>
  /\ metadata' = InitialMetadata
  /\ UNCHANGED browser

Next ==
  \/ AggregatorStart
  \/ BackfillInterval
  \/ BackfillIntervalFails
  \/ StartIndexers
  \/ IngestTrade
  \/ UpdateCandleCommits
  \/ UpdateCandleFails
  \/ Sigterm
  \/ Restart

Spec == Init /\ [][Next]_vars

\* The same system deployed with the process in UTC (the zone of a
\* container that sets no TZ), as the store session is.
InitUtc == Init /\ tz = 0

SpecUtc == InitUtc /\ [][Next]_vars

(***************************************************************************)
(* Read side: GET /candles (api/routes/candles.ts) and                     *)
(* CandleAggregator.getCandles, served over the candles relation.          *)
(***************************************************************************)

\* A query parameter (or an optional argument) that is not supplied.
Absent == "absent"

\* Values of the query-string parameters of GET /candles.
ExchangeParams == {"kalshi", "polymarket", "binance", Absent}

MarketIdParams == {"M", "N", Absent}

IntervalParams == {"1s", "1m", "1h", "5m", Absent}

\* An optional instant or number: <<v>> when given, <<>> when not.
None == <<>>

\* new Date(s) of a string that is no date: an Invalid Date, which has no
\* time value.
InvalidDate == <<0, 0>>

\* start / end as new Date(...) reads them: 12:34:00.000 and 12:35:00.000.
StartParams == {<<45240000>>, None}

\* The start strings of a request: those of StartParams and one that is no
\* date.
StartStrings == StartParams \cup {InvalidDate}

EndParams == {<<45300000>>, None}

LimitParams == {"0", "1", "2", "-3", "abc", "9999", Absent}

\* parseInt(limitStr, 10) on the strings of LimitParams; None is NaN.
parseInt(str) ==
  CASE str = "0" -> <<0>>
    [] str = "1" -> <<1>>
    [] str = "2" -> <<2>>
    [] str = "-3" -> <<0 - 3>>
    [] str = "9999" -> <<9999>>
    [] str = "abc" -> None

\* Default and cap of the limit of GET /candles.
CandlesDefaultLimit == 1000

CandlesMaxLimit == 5000

\* CandlesRouteLimit without the lower clamp Math.max(..., 1).
CandlesRouteLimitNoFloor(limitStr) ==
  IF limitStr = Absent
    THEN CandlesDefaultLimit
    ELSE LET n == parseInt(limitStr)
             orDefault == IF n = None \/ n = <<0>>
                            THEN CandlesDefaultLimit ELSE n[1]
         IN  Min(orDefault, CandlesMaxLimit)

\* let limit = 1000; if (limitStr) limit = Math.min(Math.max(
\* parseInt(limitStr, 10) || 1000, 1), 5000)
CandlesRouteLimit(limitStr) ==
  IF limitStr = Absent
    THEN CandlesDefaultLimit
    ELSE LET n == parseInt(limitStr)
             orDefault == IF n = None \/ n = <<0>>
                            THEN CandlesDefaultLimit ELSE n[1]
         IN  Min(Max(orDefault, 1), CandlesMaxLimit)

\* WHERE exchange = $1 AND market_id = $2 AND interval = $3
\* [AND open_time >= start] [AND open_time <= end], as open times.
MatchingOpenTimes(c, exchange, marketId, interval, start, end) ==
  {k[3] : k \in {key \in DOMAIN c :
                   /\ key[1] = <<exchange, marketId>>
                   /\ key[2] = interval
                   /\ (start # None => key[3] >= start[1])
                   /\ (end # None => key[3] <= end[1])}}

RECURSIVE OrderAsc(_)
\* ORDER BY open_time ASC over a set of open times.
OrderAsc(S) ==
  IF S = {} THEN <<>>
  ELSE LET least == CHOOSE x \in S : \A y \in S : x <= y
       IN  <<least>> \o OrderAsc(S \ {least})

RECURSIVE OrderDesc(_)
\* ORDER BY open_time DESC over a set of open times.
OrderDesc(S) ==
  IF S = {} THEN <<>>
  ELSE LET greatest == CHOOSE x \in S : \A y \in S : y <= x
       IN  <<greatest>> \o OrderDesc(S \ {greatest})

\* LIMIT n applied to an ordered result.
Limit(rows, n) == SubSeq(rows, 1, Min(n, Len(rows)))

Pad2(n) == IF n < 10 THEN "0" \o ToString(n) ELSE ToString(n)

Pad3(n) == IF n < 100 THEN "0" \o Pad2(n) ELSE ToString(n)

\* Date.prototype.toISOString for an instant of the first day of the epoch.
toISOString(t) ==
  "1970-01-01T" \o Pad2(t \div MsPerHour) \o ":"
    \o Pad2((t % MsPerHour) \div MsPerMinute) \o ":"
    \o Pad2((t % MsPerMinute) \div MsPerSecond) \o "."
    \o Pad3(t % MsPerSecond) \o "Z"

\* Variant of CandlesRouteRows: the range filter on end is left out.
CandlesRouteRowsEndIgnored(c, exchange, marketId, interval, start, end, limit) ==
  Limit(OrderAsc(MatchingOpenTimes(c, exchange, marketId, interval,
                                   start, None)), limit)

\* The open times of result.rows of the route's query, in order.
CandlesRouteRows(c, exchange, marketId, interval, start, end, limit) ==
  Limit(OrderAsc(MatchingOpenTimes(c, exchange, marketId, interval,
                                   start, end)), limit)

\* result.rows.map(...) of the route: one JSON object per row.
CandlesRouteData(c, market, interval, times) ==
  [i \in 1..Len(times) |->
     LET row == c[CandleKey(market, interval, times[i])]
     IN  [openTime |-> toISOString(times[i]),
          open     |-> ToString(row.open),
          high     |-> ToString(row.high),
          low      |-> ToString(row.low),
          close    |-> ToString(row.close),
          volume   |-> ToString(row.volume)]]

\* res.status(400).json({ error }): sent before any query is built.
BadRequest(op, req, message) ==
  [op |-> op, req |-> req, status |-> 400, queried |-> FALSE,
   error |-> message]

\* The catch block of a route: db.query was called with the row limit and
\* rejected.
ServerError(op, req, limit) ==
  [op |-> op, req |-> req, status |-> 500, queried |-> TRUE,
   store |-> "failed", limit |-> limit, error |-> "Internal server error"]

\* res.json({ data }) after db.query resolved.
Ok(op, req, limit, data) ==
  [op |-> op, req |-> req, status |-> 200, queried |-> TRUE,
   store |-> "ok", limit |-> limit, data |-> data]

\* GET /candles: validation, query, transformation; a rejected db.query
\* (the store fails, or a parameter is an Invalid Date) is answered with
\* status 500.
GetCandlesRoute ==
  /\ response = NoResponse
  /\ \E exchange \in ExchangeParams, marketId \in MarketIdParams,
     interval \in IntervalParams, start \in StartStrings, end \in EndParams,
     limitStr \in LimitParams, storeOk \in BOOLEAN :
    LET req == [exchange |-> exchange, marketId |-> marketId,
                interval |-> interval, start |-> start, end |-> end,
                limit |-> limitStr]
        limit == CandlesRouteLimit(limitStr)
        times == CandlesRouteRows(candles, exchange, marketId, interval,
                                  start, end, limit)
    IN  /\ response' =
             IF exchange = Absent \/ marketId = Absent \/ interval = Absent
               THEN BadRequest("GET /candles", req,
                               "Missing required parameters")
             ELSE IF exchange # "polymarket" /\ exchange # "kalshi"
               THEN BadRequest("GET /candles", req, "Invalid exchange")
             ELSE IF interval # "1s" /\ interval # "1m" /\ interval # "1h"
               THEN BadRequest("GET /candles", req, "Invalid interval")
             ELSE IF ~storeOk \/ start = InvalidDate
               THEN ServerError("GET /candles", req, limit)
             ELSE Ok("GET /candles", req, limit,
                     CandlesRouteData(candles, <<exchange, marketId>>,
                                      interval, times))
        /\ UNCHANGED <<tz, dbTz, trades, candles, pc, isRunning, listeners,
                       indexersRunning, inflight, restarted, lostWrites,
                       surfaced, counted, hubListeners, tracker, metadata, browser>>

\* Arguments of CandleAggregator.getCandles (typed: valid exchange, market
\* and interval); limit defaults to 1000.
GetCandlesLimits == {<<1>>, <<2>>, None}

\* The open times of result.rows of getCandles' query, in order.
GetCandlesRows(c, exchange, marketId, interval, start, end, limit) ==
  Limit(OrderDesc(MatchingOpenTimes(c, exchange, marketId, interval,
                                    start, end)), limit)

\* result.rows.map(...) of getCandles.
GetCandlesData(c, market, interval, times) ==
  [i \in 1..Len(times) |->
     LET row == c[CandleKey(market, interval, times[i])]
     IN  [exchange |-> market[1],
          marketId |-> market[2],
          interval |-> interval,
          openTime |-> times[i],
          open     |-> ToString(row.open),
          high     |-> ToString(row.high),
          low      |-> ToString(row.low),
          close    |-> ToString(row.close),
          volume   |-> ToString(row.volume)]]

\* candleAggregator.getCandles(...); a rejected db.query rejects the call.
GetCandles ==
  /\ response = NoResponse
  /\ \E exchange \in {"kalshi", "polymarket"}, marketId \in {"M", "N"},
     interval \in Intervals, start \in StartParams, end \in EndParams,
     limitArg \in GetCandlesLimits, storeOk \in BOOLEAN :
    LET req == [exchange |-> exchange, marketId |-> marketId,
                interval |-> interval, start |-> start, end |-> end,
                limit |-> limitArg]
        limit == IF limitArg = None THEN CandlesDefaultLimit
                 ELSE limitArg[1]
        times == GetCandlesRows(candles, exchange, marketId, interval,
                                start, end, limit)
    IN  /\ response' =
             IF ~storeOk
               THEN [op |-> "getCandles", req |-> req, status |-> "rejected"]
               ELSE [op |-> "getCandles", req |-> req,
                     status |-> "resolved", limit |-> limit,
                     data |-> GetCandlesData(candles, <<exchange, marketId>>,
                                             interval, times)]
        /\ UNCHANGED <<tz, dbTz, trades, candles, pc, isRunning, listeners,
                       indexersRunning, inflight, restarted, lostWrites,
                       surfaced, counted, hubListeners, tracker, metadata, browser>>

(***************************************************************************)
(* Read side: GET /trades, /trades/latest, /trades/markets                 *)
(* (api/routes/trades.ts), served over the trades relation.                *)
(***************************************************************************)

\* SQL NULL in a row, null in a response.
Null == "null"

SideParams == {"buy", "sell", "hold", Absent}

\* start / end of GET /trades: 12:34:56.789 and 12:35:10.000.
TradesStartStrings == {<<45296789>>, InvalidDate, None}

TradesEndParams == {<<45310000>>, None}

\* Default and cap of the limit of GET /trades.
TradesDefaultLimit == 100

TradesMaxLimit == 1000

\* let limit = 100; if (limitStr) limit = Math.min(Math.max(
\* parseInt(limitStr, 10) || 100, 1), 1000)
TradesRouteLimit(limitStr) ==
  IF limitStr = Absent
    THEN TradesDefaultLimit
    ELSE LET n == parseInt(limitStr)
             orDefault == IF n = None \/ n = <<0>>
                            THEN TradesDefaultLimit ELSE n[1]
         IN  Min(Max(orDefault, 1), TradesMaxLimit)

\* Default and cap of the limit of GET /trades/latest.
LatestDefaultLimit == 50

LatestMaxLimit == 200

\* let limit = 50; if (limitStr) limit = Math.min(Math.max(
\* parseInt(limitStr, 10) || 50, 1), 200)
LatestRouteLimit(limitStr) ==
  IF limitStr = Absent
    THEN LatestDefaultLimit
    ELSE LET n == parseInt(limitStr)
             orDefault == IF n = None \/ n = <<0>>
                            THEN LatestDefaultLimit ELSE n[1]
         IN  Min(Max(orDefault, 1), LatestMaxLimit)

\* LIMIT 100 of the two markets listings.
MarketsLimit == 100

RECURSIVE OrderingsDesc(_, _)
\* ORDER BY rank DESC over the rows S: every order the store may return,
\* rows of equal rank in any order.
OrderingsDesc(S, rank) ==
  IF S = {} THEN {<<>>}
  ELSE UNION {{<<x>> \o rest : rest \in OrderingsDesc(S \ {x}, rank)} :
                x \in {y \in S : \A z \in S : rank[z] <= rank[y]}}

\* TradesRouteMatching without the side condition.
TradesRouteMatchingSideIgnored(t, exchange, marketId, side, start, end) ==
  {i \in DOMAIN t :
     /\ t[i].market = <<exchange, marketId>>
     /\ (start # None => t[i].timestamp >= start[1])
     /\ (end # None => t[i].timestamp <= end[1])}

\* WHERE exchange = $1 AND market_id = $2 [AND side = $3]
\* [AND timestamp >= start] [AND timestamp <= end], as positions in t.
TradesRouteMatching(t, exchange, marketId, side, start, end) ==
  {i \in DOMAIN t :
     /\ t[i].market = <<exchange, marketId>>
     /\ (side # Absent => t[i].side = side)
     /\ (start # None => t[i].timestamp >= start[1])
     /\ (end # None => t[i].timestamp <= end[1])}

\* ... ORDER BY timestamp DESC LIMIT n: the results the store may return.
TradesRouteRows(t, exchange, marketId, side, start, end, limit) ==
  {Limit(order, limit) :
     order \in OrderingsDesc(
       TradesRouteMatching(t, exchange, marketId, side, start, end),
       [i \in DOMAIN t |-> t[i].timestamp])}

\* result.rows.map(...) of the two trade listings.
TradesRouteData(t, rows) ==
  [i \in 1..Len(rows) |->
     LET row == t[rows[i]]
     IN  [id        |-> row.id,
          exchange  |-> row.market[1],
          marketId  |-> row.market[2],
          price     |-> ToString(row.price),
          quantity  |-> ToString(row.quantity),
          side      |-> row.side,
          timestamp |-> toISOString(row.timestamp),
          txHash    |-> IF row.tx_hash = Null THEN Null ELSE row.tx_hash]]

\* GET /trades: validation, query, transformation; a rejected db.query is
\* answered with status 500.
GetTradesRoute ==
  /\ response = NoResponse
  /\ \E exchange \in ExchangeParams, marketId \in MarketIdParams,
     side \in SideParams, start \in TradesStartStrings,
     end \in TradesEndParams, limitStr \in LimitParams,
     storeOk \in BOOLEAN :
    LET req == [exchange |-> exchange, marketId |-> marketId,
                side |-> side, start |-> start, end |-> end,
                limit |-> limitStr]
        limit == TradesRouteLimit(limitStr)
    IN  /\ IF exchange = Absent \/ marketId = Absent
             THEN response' = BadRequest("GET /trades", req,
                                         "Missing required parameters")
           ELSE IF exchange # "polymarket" /\ exchange # "kalshi"
             THEN response' = BadRequest("GET /trades", req,
                                         "Invalid exchange")
           ELSE IF side # Absent /\ side # "buy" /\ side # "sell"
             THEN response' = BadRequest("GET /trades", req, "Invalid side")
           ELSE IF ~storeOk \/ start = InvalidDate
             THEN response' = ServerError("GET /trades", req, limit)
           ELSE \E rows \in TradesRouteRows(trades, exchange, marketId, side,
                                            start, end, limit) :
                  response' = Ok("GET /trades", req, limit,
                                 TradesRouteData(trades, rows))
        /\ UNCHANGED <<tz, dbTz, trades, candles, pc, isRunning, listeners,
                       indexersRunning, inflight, restarted, lostWrites,
                       surfaced, counted, hubListeners, tracker, metadata, browser>>

\* [WHERE exchange = $1] when the exchange is one of the two, else no
\* filter: the positions in t the listing selects from.
LatestRouteMatching(t, exchange) ==
  {i \in DOMAIN t :
     (exchange = "polymarket" \/ exchange = "kalshi")
       => t[i].market[1] = exchange}

\* ... ORDER BY timestamp DESC LIMIT n: the results the store may return.
LatestRouteRows(t, exchange, limit) ==
  {Limit(order, limit) :
     order \in OrderingsDesc(LatestRouteMatching(t, exchange),
                             [i \in DOMAIN t |-> t[i].timestamp])}

\* GET /trades/latest.
GetLatestTradesRoute ==
  /\ response = NoResponse
  /\ \E exchange \in ExchangeParams, limitStr \in LimitParams,
     storeOk \in BOOLEAN :
    LET req == [exchange |-> exchange, limit |-> limitStr]
        limit == LatestRouteLimit(limitStr)
    IN  /\ IF ~storeOk
             THEN response' = ServerError("GET /trades/latest", req, limit)
             ELSE \E rows \in LatestRouteRows(trades, exchange, limit) :
                    response' = Ok("GET /trades/latest", req, limit,
                                   TradesRouteData(trades, rows))
        /\ UNCHANGED <<tz, dbTz, trades, candles, pc, isRunning, listeners,
                       indexersRunning, inflight, restarted, lostWrites,
                       surfaced, counted, hubListeners, tracker, metadata, browser>>

\* The instants at which a request is handled: 13:47:30.000, 16:40:00.000.
Nows == {49650000, 60000000}

\* GROUP BY exchange, market_id over the trades the listing selects from.
TradesMarketsGroups(t, exchange) ==
  {t[i].market : i \in LatestRouteMatching(t, exchange)}

\* The positions in t of the trades of one market.
TradesOf(t, market) == {i \in DOMAIN t : t[i].market = market}

\* ... ORDER BY trade_count DESC LIMIT 100: the results the store may
\* return, as sequences of markets.
TradesMarketsRows(t, exchange) ==
  {Limit(order, MarketsLimit) :
     order \in OrderingsDesc(
       TradesMarketsGroups(t, exchange),
       [m \in TradesMarketsGroups(t, exchange) |->
          Cardinality(TradesOf(t, m))])}

\* result.rows.map(...) of GET /trades/markets.
TradesMarketsData(t, rows) ==
  [i \in 1..Len(rows) |->
     LET times == {t[j].timestamp : j \in TradesOf(t, rows[i])}
     IN  [exchange   |-> rows[i][1],
          marketId   |-> rows[i][2],
          tradeCount |-> Cardinality(TradesOf(t, rows[i])),
          firstTrade |-> toISOString(
                           CHOOSE x \in times : \A y \in times : x <= y),
          lastTrade  |-> toISOString(
                           CHOOSE x \in times : \A y \in times : y <= x)]]

\* GET /trades/markets, handled at the instant now.
GetTradesMarketsRoute ==
  /\ response = NoResponse
  /\ \E exchange \in ExchangeParams, now \in Nows, storeOk \in BOOLEAN :
    LET req == [exchange |-> exchange, now |-> now]
    IN  /\ IF ~storeOk
             THEN response' = ServerError("GET /trades/markets", req,
                                          MarketsLimit)
             ELSE \E rows \in TradesMarketsRows(trades, exchange) :
                    response' = Ok("GET /trades/markets", req, MarketsLimit,
                                   TradesMarketsData(trades, rows))
        /\ UNCHANGED <<tz, dbTz, trades, candles, pc, isRunning, listeners,
                       indexersRunning, inflight, restarted, lostWrites,
                       surfaced, counted, hubListeners, tracker, metadata, browser>>

\* WHERE interval = '1m' [AND exchange = $1] GROUP BY exchange, market_id
\* over the candles relation.
CandlesMarketsGroups(c, exchange) ==
  {k[1] : k \in {key \in DOMAIN c :
                   /\ key[2] = "1m"
                   /\ (exchange = "polymarket" \/ exchange = "kalshi")
                        => key[1][1] = exchange}}

\* The open times of the 1m candles of one market.
MinuteCandlesOf(c, market) ==
  {k[3] : k \in {key \in DOMAIN c : key[1] = market /\ key[2] = "1m"}}

\* ... ORDER BY candle_count DESC LIMIT 100: the results the store may
\* return, as sequences of markets.
CandlesMarketsRows(c, exchange) ==
  {Limit(order, MarketsLimit) :
     order \in OrderingsDesc(
       CandlesMarketsGroups(c, exchange),
       [m \in CandlesMarketsGroups(c, exchange) |->
          Cardinality(MinuteCandlesOf(c, m))])}

\* result.rows.map(...) of GET /candles/markets.
CandlesMarketsData(c, rows) ==
  [i \in 1..Len(rows) |->
     LET times == MinuteCandlesOf(c, rows[i])
     IN  [exchange    |-> rows[i][1],
          marketId    |-> rows[i][2],
          firstCandle |-> toISOString(
                            CHOOSE x \in times : \A y \in times : x <= y),
          lastCandle  |-> toISOString(
                            CHOOSE x \in times : \A y \in times : y <= x),
          candleCount |-> Cardinality(times)]]

\* GET /candles/markets.
GetCandlesMarketsRoute ==
  /\ response = NoResponse
  /\ \E exchange \in ExchangeParams, storeOk \in BOOLEAN :
    LET req == [exchange |-> exchange]
    IN  /\ IF ~storeOk
             THEN response' = ServerError("GET /candles/markets", req,
                                          MarketsLimit)
             ELSE \E rows \in CandlesMarketsRows(candles, exchange) :
                    response' = Ok("GET /candles/markets", req, MarketsLimit,
                                   CandlesMarketsData(candles, rows))
        /\ UNCHANGED <<tz, dbTz, trades, candles, pc, isRunning, listeners,
                       indexersRunning, inflight, restarted, lostWrites,
                       surfaced, counted, hubListeners, tracker, metadata, browser>>

(***************************************************************************)
(* candleAggregator.start() and stop() called in any order on a live       *)
(* process whose indexers emit trades.                                     *)
(***************************************************************************)

\* start() without the isRunning check.
StartUnguarded ==
  /\ isRunning' = TRUE
  /\ listeners' = listeners + 1
  /\ UNCHANGED <<indexersRunning, tz, dbTz, trades, candles, pc, inflight,
                 restarted, lostWrites>>
  /\ UNCHANGED <<surfaced, counted, response, hubListeners, tracker, metadata, browser>>

\* start(): returns when already running, else sets isRunning and
\* registers one listener with tradeEmitter.on('trade', ...).
Start ==
  /\ IF isRunning
       THEN UNCHANGED <<isRunning, listeners>>
       ELSE /\ isRunning' = TRUE
            /\ listeners' = listeners + 1
  /\ UNCHANGED <<indexersRunning, tz, dbTz, trades, candles, pc, inflight,
                 restarted, lostWrites>>
  /\ UNCHANGED <<surfaced, counted, response, hubListeners, tracker, metadata, browser>>

\* stop(): clears isRunning and calls
\* tradeEmitter.removeAllListeners('trade'), which removes every listener
\* of the event, whoever registered it.
Stop ==
  /\ isRunning' = FALSE
  /\ listeners' = 0
  /\ hubListeners' = 0
  /\ UNCHANGED <<indexersRunning, tz, dbTz, trades, candles, pc, inflight,
                 restarted, lostWrites>>
  /\ UNCHANGED <<surfaced, counted, response, tracker, metadata, browser>>

\* A live process in UTC over an empty store: the hub is subscribed, the
\* aggregator is not started yet.
InitBus ==
  /\ tz = 0
  /\ dbTz = 0
  /\ trades = <<>>
  /\ candles = <<>>
  /\ pc = "live"
  /\ isRunning = FALSE
  /\ listeners = 0
  /\ indexersRunning = TRUE
  /\ inflight = {}
  /\ restarted = FALSE
  /\ lostWrites = FALSE
  /\ surfaced = FALSE
  /\ counted = 0
  /\ response = NoResponse
  /\ hubListeners = HubListeners
  /\ recentTrades = <<>>
  /\ exchangeStats = InitialExchangeStats
  /\ recorded = <<>>
  /\ metadata = InitialMetadata
  /\ hook = InitialHook
  /\ chart = InitialChart

NextBus ==
  \/ Start
  \/ Stop
  \/ IngestTrade
  \/ UpdateCandleCommits
  \/ UpdateCandleFails

SpecBus == InitBus /\ [][NextBus]_vars

(***************************************************************************)
(* The market metadata service (services/market-metadata.ts) over          *)
(* fetchKalshiMarket (services/kalshi-api.ts): calls may overlap, each     *)
(* awaiting its own upstream request.                                      *)
(***************************************************************************)

\* Cache TTL: 60 * 60 * 1000 ms.
CACHE_TTL_MS == 60 * 60 * 1000

\* Number of fetchKalshiMarket requests in flight at once.
MaxPending == 2

\* Values of Date.now(): the start, one millisecond before the TTL has
\* passed since the start, and the TTL after the start.
ClockInstants ==
  {StartInstant, StartInstant + CACHE_TTL_MS - 1, StartInstant + CACHE_TTL_MS}

\* market.title as the upstream API returns it.
Titles == {"T1", "T2"}

\* What fetchKalshiMarket resolves to: a market, or null (missing
\* credentials, a response that is not ok, a thrown error).
FetchResults == {<<title>> : title \in Titles} \cup {None}

\* The arrays passed to getKalshiMarketTitles.
TickerLists ==
  {<<t>> : t \in Tickers} \cup {<<t, u>> : t \in Tickers, u \in Tickers}

\* cached && Date.now() - cached.fetchedAt.getTime() <= CACHE_TTL_MS
IsFreshInclusive(cache, ticker, now) ==
  /\ cache[ticker] # None
  /\ now - cache[ticker][1].fetchedAt <= CACHE_TTL_MS

\* cached && Date.now() - cached.fetchedAt.getTime() < CACHE_TTL_MS
IsFresh(cache, ticker, now) ==
  /\ cache[ticker] # None
  /\ now - cache[ticker][1].fetchedAt < CACHE_TTL_MS

\* The number of requests in flight over all tickers.
PendingTotal == metadata.pending["M"] + metadata.pending["N"]

\* Time passes.
Tick ==
  /\ \E t \in ClockInstants :
       /\ t > metadata.now
       /\ metadata' = [metadata EXCEPT !.now = t, !.last = [op |-> "tick"]]
  /\ UNCHANGED <<tz, dbTz, trades, candles, pc, isRunning, listeners,
                 indexersRunning, inflight, restarted, lostWrites,
                 surfaced, counted, response, hubListeners, tracker, browser>>

\* getKalshiMarketTitle(ticker) up to its return or its await: a fresh
\* entry is returned, otherwise fetchKalshiMarket(ticker) is called.
GetKalshiMarketTitle(ticker) ==
  /\ IF IsFresh(metadata.metadataCache, ticker, metadata.now)
       THEN metadata' =
              [metadata EXCEPT
                 !.last = [op |-> "getKalshiMarketTitle", ticker |-> ticker,
                           fetched |-> FALSE,
                           title |-> metadata.metadataCache[ticker][1].title]]
       ELSE /\ PendingTotal < MaxPending
            /\ metadata' =
                 [metadata EXCEPT
                    !.pending[ticker] = @ + 1,
                    !.last = [op |-> "getKalshiMarketTitle",
                              ticker |-> ticker, fetched |-> TRUE]]
  /\ UNCHANGED <<tz, dbTz, trades, candles, pc, isRunning, listeners,
                 indexersRunning, inflight, restarted, lostWrites,
                 surfaced, counted, response, hubListeners, tracker, browser>>

\* The positions of tickers that have no fresh entry: tickersToFetch.
TickersToFetch(tickers) ==
  {i \in DOMAIN tickers :
     ~IsFresh(metadata.metadataCache, tickers[i], metadata.now)}

\* getKalshiMarketTitles(tickers) up to the await of its batch (arrays of
\* at most two tickers make one batch): one fetchKalshiMarket call for
\* every position that has no fresh entry.
GetKalshiMarketTitles(tickers) ==
  /\ PendingTotal + Cardinality(TickersToFetch(tickers)) <= MaxPending
  /\ metadata' =
       [metadata EXCEPT
          !.pending = [t \in Tickers |->
                         @[t] + Cardinality({i \in TickersToFetch(tickers) :
                                               tickers[i] = t})],
          !.last = [op |-> "getKalshiMarketTitles", tickers |-> tickers,
                    fetched |-> TickersToFetch(tickers)]]
  /\ UNCHANGED <<tz, dbTz, trades, candles, pc, isRunning, listeners,
                 indexersRunning, inflight, restarted, lostWrites,
                 surfaced, counted, response, hubListeners, tracker, browser>>

\* A fetchKalshiMarket(ticker) call resolves and its caller goes on: a
\* market is cached with fetchedAt = new Date(), null is not.
FetchResolves(ticker, market) ==
  /\ metadata.pending[ticker] > 0
  /\ metadata' =
       [metadata EXCEPT
          !.pending[ticker] = @ - 1,
          !.metadataCache[ticker] =
             IF market # None
               THEN <<[title |-> market[1], fetchedAt |-> metadata.now]>>
               ELSE @,
          !.last = [op |-> "fetchKalshiMarket", ticker |-> ticker,
                    market |-> market]]
  /\ UNCHANGED <<tz, dbTz, trades, candles, pc, isRunning, listeners,
                 indexersRunning, inflight, restarted, lostWrites,
                 surfaced, counted, response, hubListeners, tracker, browser>>

GetKalshiMarketTitleCalls == \E ticker \in Tickers : GetKalshiMarketTitle(ticker)

GetKalshiMarketTitlesCalls ==
  \E tickers \in TickerLists : GetKalshiMarketTitles(tickers)

FetchResolutions ==
  \E ticker \in Tickers, market \in FetchResults :
    FetchResolves(ticker, market)

\* A live process in UTC over an empty store, the metadata service as
\* loaded.
InitMetadata ==
  /\ tz = 0
  /\ dbTz = 0
  /\ trades = <<>>
  /\ candles = <<>>
  /\ pc = "live"
  /\ isRunning = TRUE
  /\ listeners = 1
  /\ indexersRunning = TRUE
  /\ inflight = {}
  /\ restarted = FALSE
  /\ lostWrites = FALSE
  /\ surfaced = FALSE
  /\ counted = 0
  /\ response = NoResponse
  /\ hubListeners = HubListeners
  /\ recentTrades = <<>>
  /\ exchangeStats = InitialExchangeStats
  /\ recorded = <<>>
  /\ metadata = InitialMetadata
  /\ hook = InitialHook
  /\ chart = InitialChart

NextMetadata ==
  \/ Tick
  \/ GetKalshiMarketTitleCalls
  \/ GetKalshiMarketTitlesCalls
  \/ FetchResolutions

SpecMetadata == InitMetadata /\ [][NextMetadata]_vars

(***************************************************************************)
(* PerformanceTracker.recordTrade (services/performance-tracker.ts).  The  *)
(* two buffer caps are scaled down from 10000 and 1000 so that both trims  *)
(* happen within MaxRecorded calls.                                        *)
(***************************************************************************)

\* Cap of recentTrades (10000 in the source).
MAX_RECENT_TRADES == 3

\* Cap of each exchange's latencies (1000 in the source).
MAX_LATENCIES == 2

\* Number of recordTrade calls followed.
MaxRecorded == 5

\* tradeTimestamp.getTime(): 13:47:29.000 and 13:47:30.500.
TradeInstants == {49649000, 49650500}

\* indexedAt.getTime(): 13:47:30.000 and 13:47:30.200.
IndexedInstants == {49650000, 49650200}

\* seq.slice(-n) applied when seq.length > n, keeping the head instead of
\* the tail.
TrimHead(seq, n) ==
  IF Len(seq) > n THEN SubSeq(seq, 1, n) ELSE seq

\* if (seq.length > n) seq = seq.slice(-n)
TrimTail(seq, n) ==
  IF Len(seq) > n THEN SubSeq(seq, Len(seq) - n + 1, Len(seq)) ELSE seq

\* recordTrade(exchange, tradeTimestamp, indexedAt); recorded keeps the
\* arguments of every call.
RecordTrade ==
  /\ Len(recorded) < MaxRecorded
  /\ \E exchange \in Exchanges, tradeTs \in TradeInstants,
        indexedTs \in IndexedInstants :
       LET latencyMs == Max(0, indexedTs - tradeTs)
           metric == [exchange |-> exchange, timestamp |-> tradeTs,
                      indexedAt |-> indexedTs, latencyMs |-> latencyMs]
           stats == exchangeStats[exchange]
       IN  /\ recentTrades' = TrimTail(Append(recentTrades, metric),
                                       MAX_RECENT_TRADES)
           /\ exchangeStats' =
                [exchangeStats EXCEPT ![exchange] =
                   [totalTrades |-> stats.totalTrades + 1,
                    latencies |-> TrimTail(Append(stats.latencies, latencyMs),
                                           MAX_LATENCIES),
                    lastTradeTimestamp |-> <<tradeTs>>,
                    lastIndexedTimestamp |-> <<indexedTs>>]]
           /\ recorded' = Append(recorded,
                                 [exchange |-> exchange,
                                  tradeTimestamp |-> tradeTs,
                                  indexedAt |-> indexedTs])
  /\ UNCHANGED <<tz, dbTz, trades, candles, pc, isRunning, listeners,
                 indexersRunning, inflight, restarted, lostWrites,
                 surfaced, counted, response, hubListeners, metadata,
                 browser>>

\* A live process in UTC over an empty store, the tracker as constructed.
InitTracker ==
  /\ tz = 0
  /\ dbTz = 0
  /\ trades = <<>>
  /\ candles = <<>>
  /\ pc = "live"
  /\ isRunning = TRUE
  /\ listeners = 1
  /\ indexersRunning = TRUE
  /\ inflight = {}
  /\ restarted = FALSE
  /\ lostWrites = FALSE
  /\ surfaced = FALSE
  /\ counted = 0
  /\ response = NoResponse
  /\ hubListeners = HubListeners
  /\ recentTrades = <<>>
  /\ exchangeStats = InitialExchangeStats
  /\ recorded = <<>>
  /\ metadata = InitialMetadata
  /\ hook = InitialHook
  /\ chart = InitialChart

NextTracker == RecordTrade

SpecTracker == InitTracker /\ [][NextTracker]_vars

(***************************************************************************)
(* Read side: GET /health and GET /stats (index.ts) and                    *)
(* PerformanceTracker.getStats.                                            *)
(***************************************************************************)

\* HealthResponse answering "ok" whatever the probe gave.
HealthResponseProbeIgnored(now, storeOk) ==
  [op |-> "GET /health", req |-> [now |-> now], status |-> 200,
   queried |-> TRUE, store |-> IF storeOk THEN "ok" ELSE "failed",
   body |-> [status |-> "ok", timestamp |-> toISOString(now)]]

\* The answer of GET /health at the instant now, after db.query('SELECT
\* 1') resolved (storeOk) or rejected.
HealthResponse(now, storeOk) ==
  IF storeOk
    THEN [op |-> "GET /health", req |-> [now |-> now], status |-> 200,
          queried |-> TRUE, store |-> "ok",
          body |-> [status |-> "ok", timestamp |-> toISOString(now)]]
    ELSE [op |-> "GET /health", req |-> [now |-> now], status |-> 500,
          queried |-> TRUE, store |-> "failed",
          body |-> [status |-> "error",
                    message |-> "Database connection failed"]]

\* GET /health.
GetHealth ==
  /\ response = NoResponse
  /\ \E now \in Nows, storeOk \in BOOLEAN :
       response' = HealthResponse(now, storeOk)
  /\ UNCHANGED <<tz, dbTz, trades, candles, pc, isRunning, listeners,
                 indexersRunning, inflight, restarted, lostWrites,
                 surfaced, counted, hubListeners, tracker, metadata, browser>>

\* The rolling window of the tracker, in milliseconds.
WINDOW_SIZE_MS == 60000

\* this.recentTrades.filter((t) => t.indexedAt >= Date.now() - windowMs)
getTradesInWindow(now) ==
  SelectSeq(recentTrades, LAMBDA t : t.indexedAt >= now - WINDOW_SIZE_MS)

RECURSIVE Sum(_)
\* latencies.reduce((a, b) => a + b, 0)
Sum(seq) == IF seq = <<>> THEN 0 ELSE Head(seq) + Sum(Tail(seq))

\* Math.round(a / b) for a >= 0 and b > 0.
RoundDiv(a, b) == (2 * a + b) \div (2 * b)

\* The smallest and the largest element of a non-empty sequence.
MinOf(seq) ==
  CHOOSE x \in {seq[i] : i \in DOMAIN seq} :
    \A i \in DOMAIN seq : x <= seq[i]

MaxOf(seq) ==
  CHOOSE x \in {seq[i] : i \in DOMAIN seq} :
    \A i \in DOMAIN seq : seq[i] <= x

\* ts ? new Date(ts).toISOString() : null
IsoOrNull(ts) ==
  IF ts = None \/ ts = <<0>> THEN Null ELSE toISOString(ts[1])

\* getExchangeStats(exchange) at the instant now (tradesPerSecond, a
\* fraction of tradesLast60s, is left out).
getExchangeStats(exchange, now) ==
  LET stats == exchangeStats[exchange]
      inWindow == SelectSeq(getTradesInWindow(now),
                            LAMBDA t : t.exchange = exchange)
      latencies == stats.latencies
  IN  [totalTrades   |-> stats.totalTrades,
       tradesLast60s |-> Len(inWindow),
       avgLatencyMs  |-> IF Len(latencies) > 0
                           THEN RoundDiv(Sum(latencies), Len(latencies))
                           ELSE 0,
       minLatencyMs  |-> IF Len(latencies) > 0 THEN MinOf(latencies) ELSE 0,
       maxLatencyMs  |-> IF Len(latencies) > 0 THEN MaxOf(latencies) ELSE 0,
       lastTradeAt   |-> IsoOrNull(stats.lastTradeTimestamp),
       lastIndexedAt |-> IsoOrNull(stats.lastIndexedTimestamp)]

\* dbStats of getStats: the three counts when the queries resolved, the
\* initial zeros when one of them rejected (the catch only logs).
DbStats(storeOk) ==
  IF storeOk
    THEN LET times == {trades[i].timestamp : i \in DOMAIN trades}
         IN  [totalTradesInDb  |-> Len(trades),
              totalCandlesInDb |-> Cardinality(DOMAIN candles),
              oldestTrade |-> IF times = {} THEN Null
                              ELSE toISOString(CHOOSE x \in times :
                                                 \A y \in times : x <= y),
              newestTrade |-> IF times = {} THEN Null
                              ELSE toISOString(CHOOSE x \in times :
                                                 \A y \in times : y <= x)]
    ELSE [totalTradesInDb |-> 0, totalCandlesInDb |-> 0,
          oldestTrade |-> Null, newestTrade |-> Null]

\* The value getStats() resolves to at the instant now (uptime and
\* startedAt, which read the construction time, and tradesPerSecond are
\* left out).
getStats(now, storeOk) ==
  LET allLatencies == exchangeStats["kalshi"].latencies
                        \o exchangeStats["polymarket"].latencies
      kalshiStats == getExchangeStats("kalshi", now)
      polymarketStats == getExchangeStats("polymarket", now)
  IN  [exchanges |-> [kalshi |-> kalshiStats,
                      polymarket |-> polymarketStats],
       totals |->
         [totalTrades   |-> kalshiStats.totalTrades
                              + polymarketStats.totalTrades,
          tradesLast60s |-> Len(getTradesInWindow(now)),
          avgLatencyMs  |-> IF Len(allLatencies) > 0
                              THEN RoundDiv(Sum(allLatencies),
                                            Len(allLatencies))
                              ELSE 0],
       database |-> DbStats(storeOk)]

\* GET /stats: getStats() resolves whether or not its store queries did,
\* so the route answers res.json(stats).
GetStats ==
  /\ response = NoResponse
  /\ \E now \in Nows, storeOk \in BOOLEAN :
       response' = [op |-> "GET /stats", req |-> [now |-> now],
                    status |-> 200, queried |-> TRUE,
                    store |-> IF storeOk THEN "ok" ELSE "failed",
                    stats |-> getStats(now, storeOk)]
  /\ UNCHANGED <<tz, dbTz, trades, candles, pc, isRunning, listeners,
                 indexersRunning, inflight, restarted, lostWrites,
                 surfaced, counted, hubListeners, tracker, metadata, browser>>

\* Persisted trades of three markets, in insertion order.
StoredTrades ==
  <<[market |-> <<"kalshi", "M">>, timestamp |-> 45296789, price |-> 1,
     quantity |-> 1, side |-> "buy", tx_hash |-> Null],
    [market |-> <<"kalshi", "M">>, timestamp |-> 45310000, price |-> 2,
     quantity |-> 1, side |-> "buy", tx_hash |-> Null],
    [market |-> <<"kalshi", "M">>, timestamp |-> 49000000, price |-> 1,
     quantity |-> 1, side |-> "sell", tx_hash |-> Null],
    [market |-> <<"kalshi", "N">>, timestamp |-> 45296789, price |-> 2,
     quantity |-> 1, side |-> "sell", tx_hash |-> Null],
    [market |-> <<"polymarket", "M">>, timestamp |-> 45310000, price |-> 1,
     quantity |-> 1, side |-> "buy", tx_hash |-> "0xabc"],
    [market |-> <<"kalshi", "N">>, timestamp |-> 49100000, price |-> 1,
     quantity |-> 1, side |-> "buy", tx_hash |-> Null]>>

\* The trades relation holding the trades a..b of StoredTrades.
TradesFrom(a, b) ==
  [i \in 1..(b - a + 1) |->
     [id |-> i, market |-> StoredTrades[a + i - 1].market,
      timestamp |-> StoredTrades[a + i - 1].timestamp,
      price |-> StoredTrades[a + i - 1].price,
      quantity |-> StoredTrades[a + i - 1].quantity,
      side |-> StoredTrades[a + i - 1].side,
      tx_hash |-> StoredTrades[a + i - 1].tx_hash]]

\* The candles relation backfillCandles builds on an empty table.
BackfilledCandles ==
  CHOOSE c3 \in UNION {UNION {BackfillResults(c2, "1h") :
                                c2 \in BackfillResults(c1, "1m")} :
                         c1 \in BackfillResults(<<>>, "1s")} : TRUE

(***************************************************************************)
(* The read side over a store a live process has backfilled: the process   *)
(* and the store session are in UTC, no write is pending.  A behaviour     *)
(* follows one read: reads leave the store as it is.                       *)
(***************************************************************************)
InitQuery ==
  /\ tz = 0
  /\ dbTz = 0
  /\ trades \in {TradesFrom(a, b) : a \in 1..Len(StoredTrades),
                                    b \in 1..Len(StoredTrades)}
  /\ candles = BackfilledCandles
  /\ pc = "live"
  /\ isRunning = TRUE
  /\ listeners = 1
  /\ indexersRunning = TRUE
  /\ inflight = {}
  /\ restarted = FALSE
  /\ lostWrites = FALSE
  /\ surfaced = FALSE
  /\ counted = 0
  /\ response = NoResponse
  /\ hubListeners = HubListeners
  /\ recentTrades = <<>>
  /\ exchangeStats = InitialExchangeStats
  /\ recorded = <<>>
  /\ metadata = InitialMetadata
  /\ hook = InitialHook
  /\ chart = InitialChart

NextQuery ==
  \/ GetCandlesRoute
  \/ GetCandles
  \/ GetTradesRoute
  \/ GetLatestTradesRoute
  \/ GetTradesMarketsRoute
  \/ GetCandlesMarketsRoute
  \/ GetHealth
  \/ GetStats

SpecQuery == InitQuery /\ [][NextQuery]_vars

(***************************************************************************)
(* Properties.                                                             *)
(***************************************************************************)

\* The key updateCandle writes for a persisted trade in this process.
LiveKey(i, interval) ==
  CandleKey(trades[i].market, interval, getOpenTime(trades[i].timestamp, interval, tz))

\* The trades whose live upsert on the given interval goes to key k.
LiveBucket(k) == {i \in TradeIdx : LiveKey(i, k[2]) = k}

\* The first process is live and every upsert issued so far has been
\* committed by the store.
AllProcessed ==
  /\ ~restarted
  /\ pc = "live"
  /\ inflight = {}
  /\ ~lostWrites

\* C1: once the aggregator has processed a sequence of trades on an empty
\* candles table, every touched bucket has open = price of its earliest
\* trade, close = price of its latest trade, high = max, low = min and
\* volume = sum of the quantities.
C1_CandleIsAggregateOfBucket ==
  AllProcessed =>
    \A i \in TradeIdx, interval \in Intervals :
      LET k == LiveKey(i, interval)
          b == LiveBucket(k)
      IN  /\ k \in DOMAIN candles
          /\ candles[k].open \in FirstPrices(b)
          /\ candles[k].close \in LastPrices(b)
          /\ candles[k].high = MaxPriceOf(b)
          /\ candles[k].low = MinPriceOf(b)
          /\ candles[k].volume = SumQty(b)

\* C2: every candle row satisfies low <= open <= high, low <= close <= high
\* and volume >= 0, whatever live upserts and backfill runs produced it.
C2_CandleRowInvariant ==
  \A k \in DOMAIN candles :
    /\ candles[k].low <= candles[k].open
    /\ candles[k].open <= candles[k].high
    /\ candles[k].low <= candles[k].close
    /\ candles[k].close <= candles[k].high
    /\ candles[k].volume >= 0

\* A row built by live upserts of different prices and then rewritten by
\* the backfill of a later process.
C2_Witness ==
  /\ restarted
  /\ pc = "backfilled"
  /\ ~lostWrites
  /\ \E k \in DOMAIN candles :
       /\ candles[k].low < candles[k].high
       /\ candles[k].volume >= 2

\* C3: the upserts of different trades never overlap: all statements in
\* flight at any moment belong to one trade.
C3_UpsertsOfDifferentTradesNeverOverlap ==
  Cardinality({s.id : s \in inflight}) <= 1

\* C4: two trades upserted into the same bucket, in whatever order their
\* statements commit, leave the open, high, low and volume the sequential
\* processing (first delivered, then second) leaves; close is the price of
\* one of the two.
C4_InterleavingEqualsSequentialButClose ==
  (AllProcessed /\ Len(trades) = 2) =>
    \A interval \in Intervals :
      LiveKey(1, interval) = LiveKey(2, interval) =>
        LET k == LiveKey(1, interval)
            high == Max(trades[1].price, trades[2].price)
            low == Min(trades[1].price, trades[2].price)
        IN  /\ k \in DOMAIN candles
            /\ candles[k].open = trades[1].price
            /\ candles[k].high = high
            /\ candles[k].low = low
            /\ candles[k].volume = trades[1].quantity + trades[2].quantity
            /\ candles[k].close \in {trades[1].price, trades[2].price}

\* C5: while a backfill statement is pending or running the indexers have
\* not been started and no live upsert is in flight; the indexers run only
\* once the backfill of all three intervals is over.
C5_BackfillBeforeIndexers ==
  /\ pc \in BackfillPcs => (~indexersRunning /\ inflight = {})
  /\ indexersRunning => pc = "live"

\* A restarted process running its backfill over persisted trades, with
\* the aggregator's listener already registered.
C5_Witness ==
  /\ pc \in BackfillPcs
  /\ restarted
  /\ Len(trades) >= 1
  /\ listeners > 0

\* C6: after every persisted trade was aggregated once by the live
\* aggregator (no store error, nothing abandoned at exit, process and store
\* in the same zone), the backfill of the restarted process leaves the
\* candles table exactly as it was.
C6_BackfillReproducesIncremental ==
  [][(/\ pc \in BackfillPcs
      /\ restarted
      /\ ~lostWrites
      /\ tz = dbTz) => candles' = candles]_vars

\* C7: running the three backfill statements again right after a complete
\* backfill leaves the candles table as the first run left it.
C7_BackfillIdempotent ==
  (pc = "backfilled" /\ ~lostWrites) =>
    \A c1 \in BackfillResults(candles, "1s") :
      \A c2 \in BackfillResults(c1, "1m") :
        \A c3 \in BackfillResults(c2, "1h") : c3 = candles

\* C8: after a complete backfill every group of persisted trades has a row
\* with open = first price by timestamp, high = max, low = min, close =
\* last price by timestamp and volume = sum, whether the row existed or not
\* (stated for histories without store errors or abandoned upserts).
C8_BackfillRowIsAggregateOfGroup ==
  (pc = "backfilled" /\ ~lostWrites) =>
    \A interval \in Intervals : \A k \in GroupKeys(interval) :
      /\ k \in DOMAIN candles
      /\ candles[k].open \in FirstPrices(GroupOf(k))
      /\ candles[k].high = MaxPriceOf(GroupOf(k))
      /\ candles[k].low = MinPriceOf(GroupOf(k))
      /\ candles[k].close \in LastPrices(GroupOf(k))
      /\ candles[k].volume = SumQty(GroupOf(k))

\* C9: a committed live upsert inserts (price, price, price, price,
\* quantity) on a fresh key and, on an existing key, raises high, lowers
\* low, sets close and adds the quantity without touching open; no step at
\* all removes a row or changes its open.
C9_UpsertEffectAndOpenFrame ==
  [][/\ \A k \in DOMAIN candles :
          k \in DOMAIN candles' /\ candles'[k].open = candles[k].open
     /\ \A s \in inflight :
          UpdateCandleCommit(s) =>
            /\ s.key \in DOMAIN candles'
            /\ candles'[s.key].close = s.price
            /\ IF s.key \in DOMAIN candles
                 THEN /\ candles'[s.key].open = candles[s.key].open
                      /\ candles'[s.key].high = Max(candles[s.key].high, s.price)
                      /\ candles'[s.key].low = Min(candles[s.key].low, s.price)
                      /\ candles'[s.key].volume = candles[s.key].volume + s.volume
                 ELSE /\ candles'[s.key].open = s.price
                      /\ candles'[s.key].high = s.price
                      /\ candles'[s.key].low = s.price
                      /\ candles'[s.key].volume = s.volume]_vars

\* A row that received two live upserts of different prices and was then
\* rewritten by a backfill whose own first price differs from the row's open.
C9_Witness ==
  /\ pc = "backfilled"
  /\ restarted
  /\ ~lostWrites
  /\ \E k \in DOMAIN candles :
       /\ k \in GroupKeys(k[2])
       /\ candles[k].volume >= 2
       /\ candles[k].open \notin FirstPrices(GroupOf(k))

\* C10: a single trade processed on an empty candles table leaves exactly
\* three rows, keyed by the trade's market and its timestamp truncated to
\* the second, the minute and the hour, each with open = high = low = close
\* = price and volume = quantity.
C10_SingleTradeThreeCandles ==
  (AllProcessed /\ Len(trades) = 1) =>
    /\ DOMAIN candles =
         {CandleKey(trades[1].market, interval,
                    UtcOpenTime(trades[1].timestamp, interval)) : interval \in Intervals}
    /\ \A k \in DOMAIN candles :
         candles[k] = [open |-> trades[1].price, high |-> trades[1].price,
                       low |-> trades[1].price, close |-> trades[1].price,
                       volume |-> trades[1].quantity]

\* The first and the last published trade of a bucket: the ingester
\* publishes a trade right after appending it to the trades relation.
FirstPublished(b) == CHOOSE i \in b : \A j \in b : i <= j

LastPublished(b) == CHOOSE i \in b : \A j \in b : j <= i

\* C11: trades of one market falling in one 1m bucket and published one
\* after another leave a 1m candle with open = price of the first published
\* trade, close = price of the last published one, high = max, low = min
\* and volume = sum of the quantities.
C11_MinuteCandleInPublicationOrder ==
  AllProcessed =>
    \A i \in TradeIdx :
      LET k == LiveKey(i, "1m")
          b == LiveBucket(k)
      IN  /\ k \in DOMAIN candles
          /\ candles[k].open = trades[FirstPublished(b)].price
          /\ candles[k].close = trades[LastPublished(b)].price
          /\ candles[k].high = MaxPriceOf(b)
          /\ candles[k].low = MinPriceOf(b)
          /\ candles[k].volume = SumQty(b)

\* processTrade of trade i has resolved: each of its three updateCandle
\* calls has returned.
Processed(i) == \A s \in inflight : s.id # i

\* C12: once processTrade of a trade has resolved, a candle row exists for
\* the trade's bucket at each of the three intervals and reflects the
\* trade (volume >= its quantity, low <= its price <= high), also when a
\* store query failed during one of the upserts.
C12_ProcessedTradeHasThreeCandles ==
  (~restarted /\ pc = "live") =>
    \A i \in TradeIdx :
      Processed(i) =>
        \A interval \in Intervals :
          LET k == LiveKey(i, interval)
          IN  /\ k \in DOMAIN candles
              /\ candles[k].volume >= trades[i].quantity
              /\ candles[k].low <= trades[i].price
              /\ trades[i].price <= candles[k].high

\* C13: a store error raised by a candle write (live upsert or backfill
\* statement) is surfaced to the caller of the write and is counted.
C13_StoreErrorSurfacedAndCounted ==
  [][((\E s \in inflight : UpdateCandleFail(s)) \/ BackfillIntervalFails) =>
       (surfaced' /\ counted' > counted)]_vars

\* The processed trades of the first process some upsert of which is
\* missing from the candles table.
Unreflected ==
  {i \in TradeIdx :
     /\ Processed(i)
     /\ \E interval \in Intervals :
          LET k == LiveKey(i, interval)
          IN  \/ k \notin DOMAIN candles
              \/ candles[k].volume <
                   SumQty({j \in LiveBucket(k) : Processed(j)})}

\* C14: every trade delivered to the aggregator has all its upserts applied
\* or is counted as dropped, also after store errors and after the
\* aggregator was stopped.
C14_NoSilentLoss ==
  (~restarted /\ pc \in {"live", "exited"}) =>
    Cardinality(Unreflected) <= counted

\* C15: over any step (live upsert, backfill statement, or other) no row
\* is deleted, no volume decreases, no high decreases and no low increases.
C15_CandleNeverRewound ==
  [][\A k \in DOMAIN candles :
       /\ k \in DOMAIN candles'
       /\ candles'[k].volume >= candles[k].volume
       /\ candles'[k].high >= candles[k].high
       /\ candles'[k].low <= candles[k].low]_vars

\* A row that took two live upserts of different prices and the backfill
\* of a later process, which is live again.
C15_Witness ==
  /\ restarted
  /\ pc = "live"
  /\ \E k \in DOMAIN candles :
       /\ candles[k].volume >= 2
       /\ candles[k].low < candles[k].high

\* C16: whenever the process is live and no upsert is pending, a candle row exists for (market,
\* interval, B) iff some persisted trade of that market has its timestamp
\* truncated to B at that interval.
C16_CandleExistsIffTradeObserved ==
  (pc = "live" /\ inflight = {}) =>
    DOMAIN candles =
      {CandleKey(trades[i].market, interval,
                 UtcOpenTime(trades[i].timestamp, interval)) :
         i \in TradeIdx, interval \in Intervals}

\* C17: the open time getOpenTime computes for a trade is the UTC instant
\* truncated to the interval, whatever the zone of the process, and it is
\* the bucket DATE_TRUNC assigns to the trade in the backfill.
C17_OpenTimeIsUtcTruncation ==
  \A s \in inflight :
    /\ s.key[3] = UtcOpenTime(trades[s.id].timestamp, s.interval)
    /\ s.key[3] =
         getTruncateExpression(trades[s.id].timestamp, s.interval, dbTz)

\* C18: the shutdown signal lets the aggregator drain before the process
\* exits: no upsert in flight when the signal arrives is abandoned.
C18_ShutdownDrainsInflight ==
  [][(pc # "exited" /\ pc' = "exited") => inflight = {}]_vars

\* The keys of the candles a read with the given arguments may return.
InRange(req) ==
  {k \in DOMAIN candles :
     /\ k[1] = <<req.exchange, req.marketId>>
     /\ k[2] = req.interval
     /\ (req.start # None => k[3] >= req.start[1])
     /\ (req.end # None => k[3] <= req.end[1])}

\* C19: GET /candles with valid exchange, marketId and interval returns
\* only candles of exactly that (exchange, marketId, interval) with
\* openTime in [start, end] when given, each with the stored values, in
\* ascending openTime order, and at most limit of them.
C19_CandlesRouteResult ==
  (response.op = "GET /candles" /\ response.status = 200) =>
    LET req == response.req
        data == response.data
        KeyAt(i) == CHOOSE k \in InRange(req) :
                      toISOString(k[3]) = data[i].openTime
    IN  /\ \A i \in 1..Len(data) :
             /\ \E k \in InRange(req) : toISOString(k[3]) = data[i].openTime
             /\ data[i].open = ToString(candles[KeyAt(i)].open)
             /\ data[i].high = ToString(candles[KeyAt(i)].high)
             /\ data[i].low = ToString(candles[KeyAt(i)].low)
             /\ data[i].close = ToString(candles[KeyAt(i)].close)
             /\ data[i].volume = ToString(candles[KeyAt(i)].volume)
        /\ \A i, j \in 1..Len(data) : i < j => KeyAt(i)[3] < KeyAt(j)[3]
        /\ req.limit \in {"1", "2", "9999"} =>
             Len(data) <= parseInt(req.limit)[1]

\* GET /candles answered 200 for a 1m range [12:34, 12:35] that holds two
\* candles of the market while the table holds a later candle and candles
\* of other markets; limit 1 cuts the answer to the earlier candle.
C19_Witness ==
  /\ response.op = "GET /candles"
  /\ response.status = 200
  /\ response.req.interval = "1m"
  /\ response.req.start # None
  /\ response.req.end # None
  /\ response.req.limit = "1"
  /\ Len(response.data) = 1
  /\ Cardinality(InRange(response.req)) = 2
  /\ \E k \in DOMAIN candles :
       k[1] = <<response.req.exchange, response.req.marketId>>
         /\ k[2] = "1m" /\ k \notin InRange(response.req)
  /\ \E k \in DOMAIN candles :
       k[1] # <<response.req.exchange, response.req.marketId>>

\* C20: getCandles returns the matching candles in ascending openTime
\* order: the same rows in the same order as GET /candles returns for the
\* same arguments, also when the limit is below the number of matches.
C20_GetCandlesAscendingLikeRoute ==
  (response.op = "getCandles" /\ response.status = "resolved") =>
    LET req == response.req
        data == response.data
    IN  /\ \A i, j \in 1..Len(data) :
             i < j => data[i].openTime < data[j].openTime
        /\ [i \in 1..Len(data) |-> data[i].openTime] =
             CandlesRouteRows(candles, req.exchange, req.marketId,
                              req.interval, req.start, req.end,
                              response.limit)

\* The stored trades a GET /trades request asks for: those of its exchange
\* and market, of its side when given, with timestamp in [start, end].
TradesInRange(req) ==
  {j \in DOMAIN trades :
     /\ trades[j].market = <<req.exchange, req.marketId>>
     /\ (req.side # Absent => trades[j].side = req.side)
     /\ (req.start # None => trades[j].timestamp >= req.start[1])
     /\ (req.end # None => trades[j].timestamp <= req.end[1])}

\* C21: GET /trades with valid exchange and marketId returns only trades
\* of exactly that (exchange, marketId), of the given side when side is
\* supplied, with timestamp in the inclusive range [start, end] when
\* supplied, ordered by timestamp descending, and at most limit rows.
C21_TradesRouteResult ==
  (response.op = "GET /trades" /\ response.status = 200) =>
    LET req == response.req
        data == response.data
        TradeAt(i) == CHOOSE j \in TradesInRange(req) :
                        trades[j].id = data[i].id
    IN  /\ \A i \in 1..Len(data) :
             /\ \E j \in TradesInRange(req) : trades[j].id = data[i].id
             /\ data[i].exchange = req.exchange
             /\ data[i].marketId = req.marketId
             /\ req.side # Absent => data[i].side = req.side
             /\ data[i].side = trades[TradeAt(i)].side
             /\ data[i].timestamp = toISOString(trades[TradeAt(i)].timestamp)
             /\ data[i].price = ToString(trades[TradeAt(i)].price)
             /\ data[i].quantity = ToString(trades[TradeAt(i)].quantity)
        /\ \A i, j \in 1..Len(data) :
             i < j => trades[TradeAt(i)].timestamp
                        >= trades[TradeAt(j)].timestamp
        /\ req.limit \in {"1", "2", "9999"} =>
             Len(data) <= parseInt(req.limit)[1]

\* GET /trades answered 200 for the buys of a market in
\* [12:34:56.789, 12:35:10.000]: two stored trades lie on the two ends of
\* the range, a later sell of the market and trades of other markets are
\* stored too, and limit 1 cuts the answer to one row.
C21_Witness ==
  /\ response.op = "GET /trades"
  /\ response.status = 200
  /\ response.req.side = "buy"
  /\ response.req.start # None
  /\ response.req.end # None
  /\ response.req.limit = "1"
  /\ Len(response.data) = 1
  /\ Cardinality(TradesInRange(response.req)) = 2
  /\ \E j \in TradesInRange(response.req) :
       trades[j].timestamp = response.req.start[1]
  /\ \E j \in TradesInRange(response.req) :
       trades[j].timestamp = response.req.end[1]
  /\ \E j \in DOMAIN trades :
       /\ trades[j].market = <<response.req.exchange, response.req.marketId>>
       /\ trades[j].side = "sell"
       /\ trades[j].timestamp > response.req.end[1]
  /\ \E j \in DOMAIN trades :
       trades[j].market # <<response.req.exchange, response.req.marketId>>

C23_CandlesDefaultLimitIs100 ==
  (response.op = "GET /candles" /\ response.status = 200
     /\ response.req.limit = Absent) =>
    response.limit <= 100

\* The request of response r omits a required parameter or carries an
\* invalid value, by the validation rules of the read endpoints.
InvalidRequest(r) ==
  LET req == r.req
      BadExchange == req.exchange # "kalshi" /\ req.exchange # "polymarket"
  IN  CASE r.op = "GET /candles" ->
             \/ BadExchange
             \/ req.marketId = Absent
             \/ req.interval \notin {"1s", "1m", "1h"}
             \/ req.start = InvalidDate
             \/ req.limit = "abc"
        [] r.op = "GET /trades" ->
             \/ BadExchange
             \/ req.marketId = Absent
             \/ req.side \notin {"buy", "sell", Absent}
             \/ req.start = InvalidDate
             \/ req.limit = "abc"
        [] r.op = "GET /trades/latest" ->
             \/ BadExchange /\ req.exchange # Absent
             \/ req.limit = "abc"
        [] r.op \in {"GET /trades/markets", "GET /candles/markets"} ->
             BadExchange /\ req.exchange # Absent
        [] OTHER -> FALSE

\* C24: every request to a query endpoint that omits a required parameter
\* or carries an invalid value (exchange, interval, side, unparseable
\* start, non-numeric limit) is answered with status 400 and an {error}
\* body, and no store query is issued for it.
C24_InvalidRequestAnswered400 ==
  (response # NoResponse /\ InvalidRequest(response)) =>
    /\ response.status = 400
    /\ "error" \in DOMAIN response
    /\ ~response.queried

\* C25: whenever a store query fails while serving a read endpoint
\* (/candles, /candles/markets, /trades, /trades/latest, /trades/markets,
\* /stats), the response has status 500 with an {error} body; no read
\* endpoint answers 200 after one of its store queries failed.
C25_StoreFailureAnswered500 ==
  (response.op \in {"GET /candles", "GET /candles/markets", "GET /trades",
                    "GET /trades/latest", "GET /trades/markets",
                    "GET /stats"}
     /\ response.queried /\ response.store = "failed") =>
    /\ response.status = 500
    /\ "error" \in DOMAIN response

\* C27: GET /health answers with status "ok" if and only if the store
\* answered the probe query; when the probe fails it answers with status
\* 500 and status "error".
C27_HealthOkIffStoreAnswered ==
  response.op = "GET /health" =>
    /\ response.body.status = "ok" <=> response.store = "ok"
    /\ response.store = "ok" => response.status = 200
    /\ response.store = "failed" =>
         response.status = 500 /\ response.body.status = "error"

\* GET /health was served while the store rejected the probe query.
C27_Witness ==
  /\ response.op = "GET /health"
  /\ response.store = "failed"
  /\ response.status = 500

\* The number of stored trades of the market of row i of a markets listing
\* whose timestamp lies in the ten minutes before the request.
TradesLast10Min(r, i) ==
  Cardinality({j \in DOMAIN trades :
                 /\ trades[j].market = <<r.data[i].exchange,
                                         r.data[i].marketId>>
                 /\ trades[j].timestamp >= r.req.now - 10 * 60 * MsPerSecond
                 /\ trades[j].timestamp <= r.req.now})

\* C26: GET /trades/markets returns the markets that have trade data,
\* restricted to the given exchange when supplied, ordered first by the
\* number of trades in the last 10 minutes (descending) and then by total
\* trade count (descending).
C26_MarketsRankedByRecentActivity ==
  (response.op = "GET /trades/markets" /\ response.status = 200
     /\ response.req.exchange \in {"kalshi", "polymarket", Absent}) =>
    LET data == response.data
    IN  /\ {<<data[i].exchange, data[i].marketId>> : i \in 1..Len(data)} =
             {trades[j].market :
                j \in {k \in DOMAIN trades :
                         response.req.exchange # Absent =>
                           trades[k].market[1] = response.req.exchange}}
        /\ \A i, j \in 1..Len(data) :
             i < j =>
               \/ TradesLast10Min(response, i) > TradesLast10Min(response, j)
               \/ /\ TradesLast10Min(response, i)
                       = TradesLast10Min(response, j)
                  /\ data[i].tradeCount >= data[j].tradeCount

\* The latency samples of the recordTrade calls made for exchange e, in
\* recording order.
SamplesOf(e) ==
  LET calls == SelectSeq(recorded, LAMBDA r : r.exchange = e)
  IN  [i \in 1..Len(calls) |->
         IF calls[i].indexedAt >= calls[i].tradeTimestamp
           THEN calls[i].indexedAt - calls[i].tradeTimestamp
           ELSE 0]

\* What C28 says of the buffers after any sequence of recordTrade calls.
TrackerBuffersBounded ==
  /\ Len(recentTrades) <= MAX_RECENT_TRADES
  /\ \A i \in 1..Len(recentTrades) : recentTrades[i].latencyMs >= 0
  /\ \A e \in Exchanges :
       LET latencies == exchangeStats[e].latencies
           samples == SamplesOf(e)
           kept == Min(Len(samples), MAX_LATENCIES)
       IN  /\ Len(latencies) <= MAX_LATENCIES
           /\ latencies = SubSeq(samples, Len(samples) - kept + 1,
                                 Len(samples))
           /\ \A i \in 1..Len(latencies) : latencies[i] >= 0
           /\ exchangeStats[e].totalTrades = Len(samples)

\* C28: after any sequence of recordTrade calls each exchange's latency
\* buffer holds at most MAX_LATENCIES entries, the most recently recorded
\* samples of that exchange in recording order, recentTrades holds at most
\* MAX_RECENT_TRADES entries, every stored latency is >= 0 and totalTrades
\* equals the number of calls made for the exchange; recordTrade touches
\* neither the store nor the statements in flight nor a response.
C28_TrackerBuffers ==
  [][/\ TrackerBuffersBounded'
     /\ UNCHANGED <<trades, candles, inflight, response>>]_vars

\* More calls were made than recentTrades keeps, more for kalshi than its
\* latency buffer keeps, and one of them carried a trade time after its
\* indexing time.
C28_Witness ==
  /\ Len(recorded) > MAX_RECENT_TRADES
  /\ Len(SamplesOf("kalshi")) > MAX_LATENCIES
  /\ Len(recentTrades) = MAX_RECENT_TRADES
  /\ \E i \in 1..Len(recorded) :
       /\ recorded[i].exchange = "kalshi"
       /\ recorded[i].tradeTimestamp > recorded[i].indexedAt
  /\ \E i, j \in 1..Len(exchangeStats["kalshi"].latencies) :
       exchangeStats["kalshi"].latencies[i]
         # exchangeStats["kalshi"].latencies[j]

\* C29: stopping the candle aggregator unregisters only the aggregator's
\* own trade listener: every other subscriber of the trade event bus (the
\* WebSocket hub) registered before stop() is still registered after it.
C29_StopKeepsOtherSubscribers ==
  [][Stop => hubListeners' = hubListeners]_vars

\* C30: after any sequence of start() and stop() calls the aggregator has
\* exactly one trade listener registered when isRunning is true and none
\* when it is false; start() while running registers no second listener.
C30_OneListenerIffRunning ==
  listeners = IF isRunning THEN 1 ELSE 0

\* The aggregator runs again after a stop() (which is why the hub is no
\* longer subscribed), trades were emitted and their upserts are in
\* flight: one listener.
C30_Witness ==
  /\ isRunning
  /\ listeners = 1
  /\ hubListeners = 0
  /\ Len(trades) > 0
  /\ inflight # {}

\* The instants at which the tracker is read: 13:47:30.200, when every
\* recorded indexing time is within the window, and 13:48:30.100, when
\* only the later one is.
TrackerNows == {49650200, 49710100}

\* The recordTrade calls made for exchange e whose indexedAt lies within
\* the WINDOW_SIZE_MS before now.
CallsInWindow(e, now) ==
  SelectSeq(recorded, LAMBDA r : /\ r.exchange = e
                                 /\ r.indexedAt >= now - WINDOW_SIZE_MS
                                 /\ r.indexedAt <= now)

\* C37: the rolling-window count is exact: at any time tradesLast60s of an
\* exchange equals the number of recordTrade calls for that exchange whose
\* indexedAt lies within the last 60 seconds, for any recording rate (also
\* more calls inside one window than recentTrades keeps), and
\* totals.tradesLast60s is the sum of the two per-exchange counts.
C37_RollingWindowCountExact ==
  \A now \in TrackerNows :
    LET stats == getStats(now, TRUE)
    IN  /\ \A e \in Exchanges :
             stats.exchanges[e].tradesLast60s = Len(CallsInWindow(e, now))
        /\ stats.totals.tradesLast60s =
             stats.exchanges["kalshi"].tradesLast60s
               + stats.exchanges["polymarket"].tradesLast60s

\* C31: getKalshiMarketTitle(ticker) returns the cached title without
\* calling the upstream API if and only if a cache entry for the ticker
\* exists whose age is strictly less than 1 hour; otherwise it calls
\* fetchKalshiMarket; the cache is written only when a market was returned:
\* a null lookup is never cached and leaves any existing entry unchanged.
C31_CacheHitIffFreshEntry ==
  [][\A t \in Tickers :
       LET entry == metadata.metadataCache[t]
           fresh == /\ entry # None
                    /\ metadata.now - entry[1].fetchedAt < 3600000
       IN  /\ GetKalshiMarketTitle(t) =>
                /\ metadata'.last.fetched <=> ~fresh
                /\ fresh => /\ metadata'.last.title = entry[1].title
                            /\ metadata'.pending = metadata.pending
                /\ ~fresh => metadata'.pending[t] = metadata.pending[t] + 1
                /\ metadata'.metadataCache = metadata.metadataCache
           /\ metadata'.metadataCache[t] # entry =>
                /\ metadata'.last.op = "fetchKalshiMarket"
                /\ metadata'.last.ticker = t
                /\ metadata'.last.market # None
                /\ metadata'.metadataCache[t] =
                     <<[title |-> metadata'.last.market[1],
                        fetchedAt |-> metadata.now]>>
           /\ (\E m \in FetchResults : FetchResolves(t, m) /\ m = None) =>
                metadata'.metadataCache = metadata.metadataCache]_vars

\* getKalshiMarketTitle has just returned the cached title of an entry
\* that is one millisecond short of an hour old.
C31_Witness ==
  /\ metadata.last.op = "getKalshiMarketTitle"
  /\ ~metadata.last.fetched
  /\ metadata.now - metadata.metadataCache[metadata.last.ticker][1].fetchedAt
       = CACHE_TTL_MS - 1

\* C32: for a ticker with no fresh cache entry, any number of overlapping
\* calls to getKalshiMarketTitle / getKalshiMarketTitles result in at most
\* one upstream fetchKalshiMarket request being issued for it: never two
\* requests for one ticker in flight.
C32_AtMostOneFetchPerTicker ==
  \A t \in Tickers : metadata.pending[t] <= 1

\* ---------------------------------------------------------------------
\* The useWebSocket hook (frontend/src/hooks/useWebSocket.ts).  `hook` is
\* one instance of it: `props` are the exchange and marketId it was last
\* rendered with, `memoized` says whether its caller passes the same
\* onTrade function on every render (Chart does, TradesTable does not),
\* `sockets` are the WebSockets it has created, in creation order, and
\* `wsRef` is the index of the one wsRef.current points to (0 for null).
\* A state update, the re-render it causes and the effects of that render
\* are taken in one step with the handler that made the update.  The
\* 3000 ms of the reconnect timer are not measured: an armed timer fires
\* at some later step, before or after any other socket's events.
\* ---------------------------------------------------------------------

\* The most WebSockets one instance creates in a behaviour.
MaxSockets == 3

\* The frame both the effect and onopen send.
SubscribeFrame(sub) ==
  [action |-> "subscribe", exchange |-> sub.exchange,
   marketId |-> sub.marketId]

\* new WebSocket(WS_URL).  `closedSelected` is history, kept while the
\* socket's reconnect timer is armed: whether a market was selected at
\* the time of the socket's close event.
NewSocket(h) ==
  [readyState |-> "CONNECTING", sent |-> <<>>, timer |-> "none",
   established |-> FALSE, closedSelected |-> FALSE]

\* connect(): returns when wsRef.current is OPEN, and otherwise creates a
\* socket and stores it in wsRef.
connect(h) ==
  IF h.wsRef # 0 /\ h.sockets[h.wsRef].readyState = "OPEN"
  THEN h
  ELSE [h EXCEPT !.sockets = Append(@, NewSocket(h)),
                 !.wsRef = Len(h.sockets) + 1]

\* if (wsRef.current) { wsRef.current.close(); wsRef.current = null; }
\* close() starts the closing handshake of a socket that is CONNECTING
\* or OPEN and does nothing to one that is CLOSING or CLOSED.
closeRef(h) ==
  IF h.wsRef = 0
  THEN h
  ELSE [h EXCEPT !.sockets[h.wsRef].readyState =
                   IF @ \in {"CONNECTING", "OPEN"} THEN "CLOSING" ELSE @,
                 !.wsRef = 0]

\* The cleanup the subscription effect returned, if it returned one.
cleanup(h) ==
  IF h.hasCleanup THEN closeRef(h) ELSE h

\* The body of the subscription effect.
effect(h) ==
  LET s == [h EXCEPT !.currentSubscription = h.props]
  IN IF s.props.marketId = ""
     THEN [closeRef(s) EXCEPT !.hasCleanup = FALSE]
     ELSE IF s.wsRef # 0 /\ s.sockets[s.wsRef].readyState = "OPEN"
          THEN [s EXCEPT !.sockets[s.wsRef].sent =
                           Append(@, SubscribeFrame(s.props)),
                         !.hasCleanup = TRUE]
          ELSE [connect(s) EXCEPT !.hasCleanup = TRUE]

\* A re-render of the mounted component after a state update.  connect is
\* useCallback(..., [onTrade]) and a dependency of the effect: with an
\* onTrade that is a new function on every render the effect's cleanup
\* and body run again, with a memoized one they do not.
render(h, changed) ==
  IF h.mounted /\ changed /\ ~h.memoized THEN effect(cleanup(h)) ELSE h

\* setIsConnected and setError: ignored once the component is unmounted.
setState(h, connected, err) ==
  IF h.mounted THEN [h EXCEPT !.isConnected = connected, !.error = err]
  ELSE h

\* Whether a handler changed the hook's state.
StateChanged(h, g) ==
  h.isConnected # g.isConnected \/ h.error # g.error

\* ws.onopen of socket i.
onopen(h, i) ==
  LET s == setState(h, TRUE, "null")
      sub == h.currentSubscription
  IN IF sub.exchange # "" /\ sub.marketId # ""
     THEN [s EXCEPT !.sockets[i].sent = Append(@, SubscribeFrame(sub))]
     ELSE s

\* ws.onerror of socket i.
onerror(h, i) ==
  setState(h, h.isConnected, "WebSocket connection error")

\* ws.onclose of socket i: the reconnect timer is armed.
onclose(h, i) ==
  [setState(h, FALSE, h.error) EXCEPT !.sockets[i].timer = "armed"]

timerAlwaysConnects(h, i) ==
  connect([h EXCEPT !.sockets[i].timer = "done"])

\* The callback of the timer that socket i's onclose armed.
timer(h, i) ==
  LET s == [h EXCEPT !.sockets[i].timer = "done"]
  IN IF s.currentSubscription.marketId # "" THEN connect(s) ELSE s

\* The component mounts: first render and first run of the effect.
Mount(props, memoized) ==
  /\ ~hook.mounted
  /\ hook.sockets = <<>>
  /\ hook.wsRef = 0
  /\ hook' = effect([hook EXCEPT !.mounted = TRUE,
                                 !.memoized = memoized,
                                 !.props = props,
                                 !.currentSubscription = props])
  /\ UNCHANGED <<tz, dbTz, trades, candles, pc, isRunning, listeners,
                 indexersRunning, inflight, restarted, lostWrites,
                 surfaced, counted, response, hubListeners, tracker,
                 metadata, chart>>

\* The caller renders the hook with another exchange or marketId.
ChangeSelection(props) ==
  /\ hook.mounted
  /\ props # hook.props
  /\ LET h == effect(cleanup([hook EXCEPT !.props = props]))
     IN /\ Len(h.sockets) <= MaxSockets
        /\ hook' = h
  /\ UNCHANGED <<tz, dbTz, trades, candles, pc, isRunning, listeners,
                 indexersRunning, inflight, restarted, lostWrites,
                 surfaced, counted, response, hubListeners, tracker,
                 metadata, chart>>

\* The component unmounts: the effect's cleanup runs.
Unmount ==
  /\ hook.mounted
  /\ hook' = cleanup([hook EXCEPT !.mounted = FALSE])
  /\ UNCHANGED <<tz, dbTz, trades, candles, pc, isRunning, listeners,
                 indexersRunning, inflight, restarted, lostWrites,
                 surfaced, counted, response, hubListeners, tracker,
                 metadata, chart>>

\* Socket i's connection is established.
SocketOpens(i) ==
  /\ i \in DOMAIN hook.sockets
  /\ hook.sockets[i].readyState = "CONNECTING"
  /\ LET o == [hook EXCEPT !.sockets[i].readyState = "OPEN",
                           !.sockets[i].established = TRUE]
         g == onopen(o, i)
         h == render(g, StateChanged(hook, g))
     IN /\ Len(h.sockets) <= MaxSockets
        /\ hook' = h
  /\ UNCHANGED <<tz, dbTz, trades, candles, pc, isRunning, listeners,
                 indexersRunning, inflight, restarted, lostWrites,
                 surfaced, counted, response, hubListeners, tracker,
                 metadata, chart>>

\* The server sends a trade frame on socket i, which has subscribed:
\* setLastTrade(message.data) and onTrade?.(message.data).  lastTrade is
\* not kept: every frame is parsed into a new object, so every
\* setLastTrade is a state update and re-renders the mounted component.
ServerSendsTrade(i) ==
  /\ i \in DOMAIN hook.sockets
  /\ hook.sockets[i].readyState = "OPEN"
  /\ hook.sockets[i].sent # <<>>
  /\ LET h == render(hook, TRUE)
     IN /\ Len(h.sockets) <= MaxSockets
        /\ hook' = h
  /\ UNCHANGED <<tz, dbTz, trades, candles, pc, isRunning, listeners,
                 indexersRunning, inflight, restarted, lostWrites,
                 surfaced, counted, response, hubListeners, tracker,
                 metadata, chart>>

\* Socket i closes: the connection failed, the server or the network
\* dropped it, or the closing handshake that close() started is over.  A
\* socket that never opened fires error before close.
SocketCloses(i) ==
  /\ i \in DOMAIN hook.sockets
  /\ hook.sockets[i].readyState # "CLOSED"
  /\ LET c == [hook EXCEPT !.sockets[i].readyState = "CLOSED",
                           !.sockets[i].closedSelected =
                             hook.currentSubscription.marketId # ""]
         e == IF hook.sockets[i].established THEN c ELSE onerror(c, i)
         g == onclose(e, i)
         h == render(g, StateChanged(hook, g))
     IN /\ Len(h.sockets) <= MaxSockets
        /\ hook' = h
  /\ UNCHANGED <<tz, dbTz, trades, candles, pc, isRunning, listeners,
                 indexersRunning, inflight, restarted, lostWrites,
                 surfaced, counted, response, hubListeners, tracker,
                 metadata, chart>>

\* The reconnect timer of socket i fires.
TimerFires(i) ==
  /\ i \in DOMAIN hook.sockets
  /\ hook.sockets[i].timer = "armed"
  /\ LET h == timer([hook EXCEPT !.sockets[i].closedSelected = FALSE], i)
     IN /\ Len(h.sockets) <= MaxSockets
        /\ hook' = h
  /\ UNCHANGED <<tz, dbTz, trades, candles, pc, isRunning, listeners,
                 indexersRunning, inflight, restarted, lostWrites,
                 surfaced, counted, response, hubListeners, tracker,
                 metadata, chart>>

Mounts == \E props \in Selections, memoized \in BOOLEAN :
            Mount(props, memoized)

SelectionChanges == \E props \in Selections : ChangeSelection(props)

SocketsOpen == \E i \in 1..MaxSockets : SocketOpens(i)

ServerSendsTrades == \E i \in 1..MaxSockets : ServerSendsTrade(i)

SocketsClose == \E i \in 1..MaxSockets : SocketCloses(i)

TimersFire == \E i \in 1..MaxSockets : TimerFires(i)

InitHook ==
  /\ tz = 0
  /\ dbTz = 0
  /\ trades = <<>>
  /\ candles = <<>>
  /\ pc = "live"
  /\ isRunning = TRUE
  /\ listeners = 1
  /\ indexersRunning = TRUE
  /\ inflight = {}
  /\ restarted = FALSE
  /\ lostWrites = FALSE
  /\ surfaced = FALSE
  /\ counted = 0
  /\ response = NoResponse
  /\ hubListeners = HubListeners
  /\ recentTrades = <<>>
  /\ exchangeStats = InitialExchangeStats
  /\ recorded = <<>>
  /\ metadata = InitialMetadata
  /\ hook = InitialHook
  /\ chart = InitialChart

NextHook ==
  \/ Mounts
  \/ SelectionChanges
  \/ Unmount
  \/ SocketsOpen
  \/ ServerSendsTrades
  \/ SocketsClose
  \/ TimersFire

SpecHook == InitHook /\ [][NextHook]_vars

\* The sockets of the hook that are CONNECTING or OPEN.
LiveSockets ==
  {i \in DOMAIN hook.sockets :
     hook.sockets[i].readyState \in {"CONNECTING", "OPEN"}}

\* C34: at every moment a useWebSocket instance owns at most one
\* WebSocket that is CONNECTING or OPEN.
C34_AtMostOneLiveSocket ==
  Cardinality(LiveSockets) <= 1

\* C35: once the component is unmounted the hook creates no WebSocket.
C35_NoSocketAfterUnmount ==
  [][(~hook.mounted /\ hook.sockets # <<>>)
       => Len(hook'.sockets) = Len(hook.sockets)]_vars

\* C36: while exchange and marketId stay unchanged, the state updates
\* the hook makes itself (onopen, a received trade) never make it call
\* close() on a socket that is CONNECTING or OPEN, whether or not the
\* caller memoizes onTrade.
C36_HookNeverClosesOwnSocket ==
  [][(SocketsOpen \/ ServerSendsTrades)
       => \A i \in DOMAIN hook.sockets :
            hook'.sockets[i].readyState = "CLOSING"
              => hook.sockets[i].readyState = "CLOSING"]_vars

\* Whether wsRef.current is an OPEN socket.
RefIsOpen ==
  hook.wsRef # 0 /\ hook.sockets[hook.wsRef].readyState = "OPEN"

\* The frames a socket sends when it opens with the hook rendered for the
\* given selection.
FramesOnOpen(selection) ==
  IF selection.marketId # "" THEN <<SubscribeFrame(selection)>> ELSE <<>>

\* On open a socket sends exactly one subscribe frame, for the exchange
\* and marketId selected at that moment, and none when no market is
\* selected.
SubscribesForCurrentSelection ==
  \A i \in 1..MaxSockets :
    SocketOpens(i) => hook'.sockets[i].sent = FramesOnOpen(hook.props)

\* C33: the reconnect timer of a closed socket makes a new socket exactly
\* when a market is selected at the moment the timer fires and wsRef
\* holds no OPEN socket, whatever was selected when the socket closed;
\* and a socket that opens sends exactly one subscribe frame, for the
\* selection of the moment it opens.
C33_ReconnectForCurrentSelection ==
  [][/\ \A i \in 1..MaxSockets :
          TimerFires(i) =>
            IF hook.currentSubscription.marketId # "" /\ ~RefIsOpen
            THEN /\ Len(hook'.sockets) = Len(hook.sockets) + 1
                 /\ hook'.wsRef = Len(hook'.sockets)
                 /\ hook'.sockets[hook'.wsRef].readyState = "CONNECTING"
            ELSE /\ Len(hook'.sockets) = Len(hook.sockets)
                 /\ hook'.wsRef = hook.wsRef
     /\ SubscribesForCurrentSelection]_vars

\* A socket that had subscribed to one market has closed and has had
\* its timer fire after another market was selected, while socket 2 was
\* still CONNECTING; the socket the timer made has opened and has sent
\* one subscribe frame, for the market selected now.
C33_Witness ==
  /\ hook.memoized
  /\ Len(hook.sockets) = 3
  /\ hook.sockets[1].timer = "done"
  /\ hook.sockets[1].sent # <<>>
  /\ hook.sockets[1].sent # hook.sockets[3].sent
  /\ hook.sockets[2].readyState = "CONNECTING"
  /\ hook.sockets[3].established
  /\ hook.sockets[3].sent = <<SubscribeFrame(hook.props)>>

\* C33 as stated: a socket that closes while a market is selected is
\* followed 3 seconds later by a connection attempt (a new socket, unless
\* the hook already holds an OPEN one), one that closes while no market
\* is selected is not; and a socket that opens sends exactly one
\* subscribe frame, for the selection of the moment it opens.
C33_ReconnectWheneverClosedWhileSelected ==
  [][/\ \A i \in 1..MaxSockets :
          TimerFires(i) =>
            IF hook.sockets[i].closedSelected
            THEN \/ Len(hook'.sockets) = Len(hook.sockets) + 1
                 \/ RefIsOpen
            ELSE Len(hook'.sockets) = Len(hook.sockets)
     /\ SubscribesForCurrentSelection]_vars

\* ---------------------------------------------------------------------
\* The Chart component: candles loaded from GET /api/candles and live
\* trades folded into them by handleTrade.  The store is filled by an
\* aggregator that runs in UTC; `chart.server` follows the rows of the
\* chart's market and interval, every live trade being upserted there as
\* well.
\* ---------------------------------------------------------------------

\* The most live trades a Chart handles in a behaviour.
MaxLiveTrades == 2

\* new Date().getTimezoneOffset() of the browser, in minutes west of UTC:
\* UTC, India (UTC+5:30) and New York (UTC-5).
BrowserOffsets == {0, -330, 300}

\* Trades stored before the chart loads: none, or one at 12:34:56.789.
HistoricTrades ==
  {<<>>, <<[timestamp |-> 45296789, price |-> 2, quantity |-> 1]>>}

\* Instants of live trades: the second, the minute and the hour of the
\* stored trade, and the next hour.
LiveInstants == {45296900, 45310000, 46000000, 48900000}

\* Numbers that occur as prices and volumes.
MaxNumber == 8

\* parseFloat of the decimal strings the API and the socket carry.
parseFloat(str) ==
  CHOOSE n \in 0..MaxNumber : ToString(n) = str

\* A trade as the WebSocket frame carries it.
TradeFrame(timestamp, price, quantity) ==
  [timestamp |-> timestamp, price |-> ToString(price),
   quantity |-> ToString(quantity)]

LiveTrades ==
  {TradeFrame(t, p, q) : t \in LiveInstants, p \in {1, 3}, q \in Quantities}

\* The rows the aggregator, running in UTC, leaves for a sequence of
\* trades and an interval, keyed by open time.
RECURSIVE ServerRows(_, _)
ServerRows(ts, interval) ==
  IF ts = <<>>
  THEN <<>>
  ELSE LET last == ts[Len(ts)]
       IN UpsertCandle(ServerRows(SubSeq(ts, 1, Len(ts) - 1), interval),
                       getOpenTime(last.timestamp, interval, 0),
                       last.price, last.quantity)

\* The candles GET /api/candles returns for the rows.
ApiCandles(rows) ==
  {[openTime |-> k,
    open |-> ToString(rows[k].open), high |-> ToString(rows[k].high),
    low |-> ToString(rows[k].low), close |-> ToString(rows[k].close),
    volume |-> ToString(rows[k].volume)] : k \in DOMAIN rows}

TIMEZONE_OFFSET_SECONDS(offset) == offset * 60

toChartCandle(candle, offset) ==
  LET utcSeconds == candle.openTime \div MsPerSecond
      localSeconds == utcSeconds - TIMEZONE_OFFSET_SECONDS(offset)
  IN [time |-> localSeconds,
      open |-> parseFloat(candle.open), high |-> parseFloat(candle.high),
      low |-> parseFloat(candle.low), close |-> parseFloat(candle.close),
      volume |-> parseFloat(candle.volume)]

getIntervalSeconds(interval) ==
  CASE interval = "1s" -> 1
    [] interval = "1m" -> 60
    [] interval = "1h" -> 3600

\* candleTime of handleTrade: Math.floor(tradeTime / intervalSec) *
\* intervalSec, where tradeTime is the instant in seconds, with its
\* fraction, less the offset.
candleTime(trade, interval, offset) ==
  LET tradeTimeMs == trade.timestamp
                       - TIMEZONE_OFFSET_SECONDS(offset) * MsPerSecond
      intervalSec == getIntervalSeconds(interval)
  IN (tradeTimeMs \div (intervalSec * MsPerSecond)) * intervalSec

\* Map.set
MapSet(map, key, value) ==
  [k \in DOMAIN map \cup {key} |-> IF k = key THEN value ELSE map[k]]

\* handleTrade on candlesRef.current.
handleTrade(map, trade, interval, offset) ==
  LET time == candleTime(trade, interval, offset)
      price == parseFloat(trade.price)
      quantity == parseFloat(trade.quantity)
  IN IF time \in DOMAIN map
     THEN MapSet(map, time,
                 [time |-> time, open |-> map[time].open,
                  high |-> Max(map[time].high, price),
                  low |-> Min(map[time].low, price),
                  close |-> price,
                  volume |-> map[time].volume + quantity])
     ELSE MapSet(map, time,
                 [time |-> time, open |-> price, high |-> price,
                  low |-> price, close |-> price, volume |-> quantity])

\* The page is loaded in a browser whose zone has the offset, and the
\* Chart mounts with the interval.
OpenChart(offset, interval) ==
  /\ chart.status = "closed"
  /\ chart' = [chart EXCEPT !.status = "mounted", !.offset = offset,
                            !.interval = interval]
  /\ UNCHANGED <<tz, dbTz, trades, candles, pc, isRunning, listeners,
                 indexersRunning, inflight, restarted, lostWrites,
                 surfaced, counted, response, hubListeners, tracker,
                 metadata, hook>>

\* fetchCandles resolves: candlesRef is filled with the chart candles.
CandlesLoaded(history) ==
  /\ chart.status = "mounted"
  /\ LET rows == ServerRows(history, chart.interval)
         chartCandles == {toChartCandle(c, chart.offset) :
                            c \in ApiCandles(rows)}
     IN chart' = [chart EXCEPT
                    !.status = "loaded",
                    !.server = rows,
                    !.loaded = DOMAIN rows,
                    !.candlesRef =
                      [t \in {c.time : c \in chartCandles} |->
                         CHOOSE c \in chartCandles : c.time = t]]
  /\ UNCHANGED <<tz, dbTz, trades, candles, pc, isRunning, listeners,
                 indexersRunning, inflight, restarted, lostWrites,
                 surfaced, counted, response, hubListeners, tracker,
                 metadata, hook>>

\* A live trade of the chart's market: the aggregator upserts it and the
\* socket hands it to handleTrade.
HandleTrade(trade) ==
  /\ chart.status = "loaded"
  /\ chart.handled < MaxLiveTrades
  /\ chart' = [chart EXCEPT
                 !.handled = @ + 1,
                 !.server = UpsertCandle(@,
                              getOpenTime(trade.timestamp, chart.interval, 0),
                              parseFloat(trade.price),
                              parseFloat(trade.quantity)),
                 !.candlesRef = handleTrade(@, trade, chart.interval,
                                            chart.offset)]
  /\ UNCHANGED <<tz, dbTz, trades, candles, pc, isRunning, listeners,
                 indexersRunning, inflight, restarted, lostWrites,
                 surfaced, counted, response, hubListeners, tracker,
                 metadata, hook>>

ChartOpens == \E offset \in BrowserOffsets, interval \in Intervals :
                OpenChart(offset, interval)

CandlesLoad == \E history \in HistoricTrades : CandlesLoaded(history)

TradesHandled == \E trade \in LiveTrades : HandleTrade(trade)

InitChart ==
  /\ tz = 0
  /\ dbTz = 0
  /\ trades = <<>>
  /\ candles = <<>>
  /\ pc = "live"
  /\ isRunning = TRUE
  /\ listeners = 1
  /\ indexersRunning = TRUE
  /\ inflight = {}
  /\ restarted = FALSE
  /\ lostWrites = FALSE
  /\ surfaced = FALSE
  /\ counted = 0
  /\ response = NoResponse
  /\ hubListeners = HubListeners
  /\ recentTrades = <<>>
  /\ exchangeStats = InitialExchangeStats
  /\ recorded = <<>>
  /\ metadata = InitialMetadata
  /\ hook = InitialHook
  /\ chart = InitialChart

NextChart ==
  \/ ChartOpens
  \/ CandlesLoad
  \/ TradesHandled

SpecChart == InitChart /\ [][NextChart]_vars

\* The chart candle a loaded candle of the store became.
ChartKey(openTime) ==
  openTime \div MsPerSecond - TIMEZONE_OFFSET_SECONDS(chart.offset)

\* C38: a live trade whose instant falls in the bucket of a loaded candle
\* is folded into the chart candle toChartCandle made of that candle, with
\* the rule of the server upsert, and no other candle is created.
C38_LiveTradeFoldedIntoLoadedCandle ==
  [][\A trade \in LiveTrades :
       LET openTime == getOpenTime(trade.timestamp, chart.interval, 0)
           key == ChartKey(openTime)
           fold == UpsertConflict(chart.candlesRef[key],
                                  parseFloat(trade.price),
                                  parseFloat(trade.quantity))
       IN (HandleTrade(trade) /\ openTime \in chart.loaded
             /\ key \in DOMAIN chart.candlesRef)
            => /\ DOMAIN chart'.candlesRef = DOMAIN chart.candlesRef
               /\ chart'.candlesRef[key] =
                    [time |-> key, open |-> fold.open, high |-> fold.high,
                     low |-> fold.low, close |-> fold.close,
                     volume |-> fold.volume]]_vars

====
